---- MODULE Spec2Model ----
(***************************************************************************)
(* Session-scoped transaction authorization of the SSO wallet agent        *)
(* (src/wallet/ssowallet/agent): resolution of the active session from     *)
(* SessionCreated / SessionRevoked logs (agent_session.py) and the         *)
(* prepare / sign / serialize / send functions (agent_transaction.py).     *)
(***************************************************************************)
EXTENDS Integers, Sequences, FiniteSets, TLC

(***************************************************************************)
(* Bounds of the model                                                     *)
(***************************************************************************)
\* int(time.time()) read by fetch_session_config
NowTs == 1000
\* web3.eth.block_number at the time of the call
CurrentBlock == 25000
\* number of SessionCreated logs on the chain
MaxLogs == 2

(***************************************************************************)
(* Program constants                                                       *)
(***************************************************************************)
\* chunk_size of the history scan
CHUNK_SIZE == 10000
\* "Look at last 1000 blocks"
RECENT_WINDOW == 1000

(***************************************************************************)
(* Values                                                                  *)
(***************************************************************************)
\* Python None where a string is expected
NoneV == "None"
\* the address argument of fetch_session_config, as the caller writes it
display_address == "0xacc"
\* account of the events, as the node reports it (checksum case)
ACCOUNT_CS == "0xACC"
OTHER_ACCOUNT == "0x0th"

\* str.lower() on the strings of the model
Lower(s) ==
  CASE s = "0xACC" -> "0xacc"
    [] s = "0xAb" -> "0xab"
    [] OTHER -> s

Max(a, b) == IF a > b THEN a ELSE b
Min(a, b) == IF a < b THEN a ELSE b

\* block numbers at which the logs of the model sit: one older than the
\* recent window, one inside it
OldBlock == CHUNK_SIZE \div 2
RecentBlock == CurrentBlock - (RECENT_WINDOW \div 2)

FieldNames == <<"signer", "expiresAt", "feeLimit", "callPolicies", "transferPolicies">>
FirstFields(n) == {FieldNames[i] : i \in 1..n}
AllFields == FirstFields(5)

IntV(n) == [kind |-> "int", val |-> n]
StrV == [kind |-> "str", val |-> 0]
NoV == [kind |-> "none", val |-> 0]

\* sessionSpec of a decoded SessionCreated log: shape "dict" (AttributeDict),
\* "tuple" (positional) or "none" (absent); keys are the fields present (for a
\* tuple: its first n positions)
SpecOf(shape, keys, signer, exp) ==
  [shape |-> shape, keys |-> keys, signer |-> signer, expiresAt |-> exp]

Signers == {"0xAb", "0xcd"}
Expiries == {NowTs - 1, NowTs, NowTs + 3600}

WellFormedSpecs ==
  {SpecOf("dict", AllFields, "0xAb", IntV(e)) : e \in Expiries}
  \cup {SpecOf("dict", AllFields, "0xcd", IntV(NowTs + 3600))}
  \cup {SpecOf("tuple", AllFields, s, IntV(NowTs + 3600)) : s \in Signers}
  \cup {SpecOf("tuple", AllFields, "0xAb", IntV(NowTs))}

MalformedSpecs ==
  { SpecOf("none", {}, NoneV, NoV),
    SpecOf("tuple", FirstFields(1), "0xAb", NoV),
    SpecOf("tuple", FirstFields(3), "0xAb", IntV(NowTs + 3600)),
    SpecOf("dict", AllFields \ {"signer"}, NoneV, IntV(NowTs + 3600)),
    SpecOf("dict", AllFields, "0xAb", StrV) }

WellFormed(spec) == spec \in WellFormedSpecs

\* the sessionHash of the i-th SessionCreated log: every session has its own
HashAt(i) == <<"h1", "h2", "h3", "h4">>[i]

\* values a parsed session carries for the fields the resolver does not inspect
ONCHAIN_FEE_LIMIT == [limitType |-> 1, limit |-> 100, period |-> 0]
ZERO_FEE_LIMIT == [limitType |-> 0, limit |-> 0, period |-> 0]
ONCHAIN_TRANSFER_POLICIES ==
  << [target |-> "0xt1", maxValuePerUse |-> 5, valueLimit |-> ZERO_FEE_LIMIT] >>

\* what the logs of one account's sessions and of another account can carry
LogContents ==
  {[account |-> ACCOUNT_CS, sessionSpec |-> sp] : sp \in WellFormedSpecs \cup MalformedSpecs}
  \cup {[account |-> OTHER_ACCOUNT,
         sessionSpec |-> SpecOf("dict", AllFields, "0xAb", IntV(NowTs + 3600))]}

\* a decoded SessionCreated log
MkLog(content, i, block) ==
  [account |-> content.account, sessionHash |-> HashAt(i),
   sessionSpec |-> content.sessionSpec, blockNumber |-> block]

\* the SessionCreated logs of the session contract, in block order: the first
\* nOld of them older than the recent window
Chains ==
  UNION {
    { [i \in 1..n |-> MkLog(c[i], i, IF i <= nOld THEN OldBlock ELSE RecentBlock)] :
        c \in [1..n -> LogContents], nOld \in 0..n }
    : n \in 0..MaxLogs }

NoneSession == [kind |-> "None"]
NoEntry == [kind |-> "None"]

\* Python's None as a value, as a transaction and as a serialized transaction
PyNone == [t |-> "none"]
NoneTx == [kind |-> "None"]
NoBytes == [ok |-> FALSE, bytes |-> <<>>]

VARIABLES
  \* the chain
  chain,            \* SessionCreated logs of the session contract (all accounts)
  chainRevoked,     \* session hashes of the account's SessionRevoked events
  block_number,     \* web3.eth.block_number
  \* fetch_session_config
  signer_pub_key,   \* its argument (NoneV: not given)
  pc,
  created_logs,
  revoked_logs,     \* the sessionHash of each SessionRevoked log fetched
  all_created_logs,
  scan_from_block,
  from_block,
  to_block,
  chunkQueries,     \* the block ranges the chunked scan has queried, in order
  filterRaised,     \* the account-filtered query raised
  scanRaised,       \* a query of the fallback search raised
  result,           \* the value returned
  returned,         \* the entry of active_sessions the result was taken from
  raised,           \* an exception left fetch_session_config
  \* the chain as the transaction functions read it
  baseFeePerGas,    \* of the latest block, in gwei
  txCount,          \* get_transaction_count of the wallet address
  \* the transaction pipeline
  amount,           \* argument of prepare_transaction
  session_config,   \* argument of prepare_transaction and sign_transaction
  txpc,
  tx_params,        \* the transaction prepare_transaction returned
  signed_tx,        \* the transaction sign_transaction returned
  send_arg,         \* the argument of send_transaction
  serialized_tx,    \* what serialize_transaction returned
  broadcasts,       \* the raw transactions given to send_raw_transaction
  tx_hash,          \* what send_transaction returned
  \* a call of one of the pure functions
  call,             \* the function's arguments
  ret,              \* what it returned
  fnpc,
  \* wait_for_transaction
  clock,            \* time.time(), in seconds
  mined,            \* the chain has a receipt for the transaction
  timeout,          \* its argument
  start_time,
  wpc,
  polls,            \* the calls of get_transaction_receipt made, in order
  receipt,          \* the value returned
  \* an entry point: agent_main.main, agent_send.main, agent_swap.main,
  \* do_execute_buy, do_execute_sell
  entry_point,
  steps,            \* the step functions it calls, in order
  step,             \* the position in steps of the one running
  stage,            \* the call the entry point is about to make
  trace,            \* the calls made so far and whether each succeeded
  exit_value,       \* what the entry point returned
  \* pipelines of one account that run side by side
  pipelines,        \* of each: its position, its nonce, the receipts it saw
  mempool,          \* the transactions broadcast and not mined
  \* the trading bot of agent_trading.py
  trading_thread,   \* the global: 0 for None, or the thread
  stop_trading_flag,
  threads,          \* of each thread: its position in run_trading_loop
  spc,              \* the position of a call of stop_trading
  stopped           \* the threads stop_trading reported stopped

chainVars == <<chain, chainRevoked, block_number>>
fetchVars == <<signer_pub_key, pc, created_logs, revoked_logs, all_created_logs,
               scan_from_block, from_block, to_block, chunkQueries, filterRaised,
               scanRaised, result, returned, raised>>
txVars == <<baseFeePerGas, txCount, amount, session_config, txpc, tx_params,
            signed_tx, send_arg, serialized_tx, broadcasts, tx_hash>>
fnVars == <<call, ret, fnpc>>
waitVars == <<clock, mined, timeout, start_time, wpc, polls, receipt>>
flowVars == <<entry_point, steps, step, stage, trace, exit_value>>
pipeVars == <<pipelines, mempool>>
threadVars == <<trading_thread, stop_trading_flag, threads, spc, stopped>>
procVars == <<waitVars, flowVars, pipeVars, threadVars>>
vars == <<chainVars, fetchVars, txVars, fnVars, procVars>>

\* nothing is waiting for a receipt
WaitIdle ==
  /\ clock = 0
  /\ mined = FALSE
  /\ timeout = 0
  /\ start_time = 0
  /\ wpc = "idle"
  /\ polls = <<>>
  /\ receipt = PyNone

\* no entry point is running
FlowIdle ==
  /\ entry_point = "None"
  /\ steps = <<>>
  /\ step = 0
  /\ stage = "idle"
  /\ trace = <<>>
  /\ exit_value = PyNone

\* no pipeline is running
PipeIdle ==
  /\ pipelines = <<>>
  /\ mempool = {}

\* the trading bot was never started
ThreadIdle ==
  /\ trading_thread = 0
  /\ stop_trading_flag = FALSE
  /\ threads = <<>>
  /\ spc = "idle"
  /\ stopped = {}

\* none of the processes is running
ProcIdle == WaitIdle /\ FlowIdle /\ PipeIdle /\ ThreadIdle

\* no pure function is being called
FnIdle ==
  /\ call = PyNone
  /\ ret = PyNone
  /\ fnpc = "idle"

\* no transaction is being built
TxIdle ==
  /\ baseFeePerGas = 0
  /\ txCount = 0
  /\ amount = 0
  /\ session_config = PyNone
  /\ txpc = "idle"
  /\ tx_params = NoneTx
  /\ signed_tx = NoneTx
  /\ send_arg = NoneTx
  /\ serialized_tx = NoBytes
  /\ broadcasts = <<>>
  /\ tx_hash = NoneV

\* no session is being resolved
FetchIdle ==
  /\ chain = <<>>
  /\ chainRevoked = {}
  /\ block_number = 0
  /\ signer_pub_key = NoneV
  /\ pc = "idle"
  /\ created_logs = <<>>
  /\ revoked_logs = {}
  /\ all_created_logs = <<>>
  /\ scan_from_block = 0
  /\ from_block = 0
  /\ to_block = 0
  /\ chunkQueries = <<>>
  /\ filterRaised = FALSE
  /\ scanRaised = FALSE
  /\ result = NoneSession
  /\ returned = NoEntry
  /\ raised = FALSE

(***************************************************************************)
(* agent_session.py: parse_session_config                                  *)
(***************************************************************************)
Has(spec, k) == k \in spec.keys
Arity(spec) == Cardinality(spec.keys)

MkSession(signer, exp, fee, calls, transfers) ==
  [kind |-> "session", signer |-> signer, expiresAt |-> exp, feeLimit |-> fee,
   callPolicies |-> calls, transferPolicies |-> transfers]

\* "Ensure expires_at is an integer": int() of a non-integer, else now + 1 hour
EnsureInt(raw, now) == IF raw.kind = "int" THEN raw.val ELSE now + 3600

\* the except branch: "Try to extract minimal info for a fallback config"
MinimalConfig(spec, now) ==
  IF spec.shape = "dict"
  THEN LET raw == IF Has(spec, "expiresAt") THEN spec.expiresAt ELSE IntV(now + 3600)
       IN IF raw.kind = "str" THEN NoneSession
          ELSE MkSession(IF Has(spec, "signer") THEN spec.signer ELSE NoneV,
                         EnsureInt(raw, now), ZERO_FEE_LIMIT, <<>>, <<>>)
  ELSE IF spec.shape = "tuple" /\ Arity(spec) >= 2
  THEN IF spec.expiresAt.kind = "str" THEN NoneSession
       ELSE MkSession(spec.signer, EnsureInt(spec.expiresAt, now),
                      ZERO_FEE_LIMIT, <<>>, <<>>)
  ELSE NoneSession

parse_session_config(spec, now) ==
  IF spec.shape = "dict"
  THEN MkSession(IF Has(spec, "signer") THEN spec.signer ELSE NoneV,
                 EnsureInt(IF Has(spec, "expiresAt") THEN spec.expiresAt ELSE IntV(0), now),
                 IF Has(spec, "feeLimit") THEN ONCHAIN_FEE_LIMIT ELSE ZERO_FEE_LIMIT,
                 <<>>,
                 IF Has(spec, "transferPolicies") THEN ONCHAIN_TRANSFER_POLICIES ELSE <<>>)
  ELSE IF spec.shape = "tuple" /\ Arity(spec) = 5
  THEN MkSession(spec.signer, EnsureInt(spec.expiresAt, now), ONCHAIN_FEE_LIMIT, <<>>,
                 ONCHAIN_TRANSFER_POLICIES)
  ELSE MinimalConfig(spec, now)

(***************************************************************************)
(* agent_session.py: fetch_session_config                                  *)
(***************************************************************************)
\* the logs of a block range, as create_filter(from_block, to_block) returns them
LogsInRange(lo, hi) ==
  SelectSeq(chain, LAMBDA l : l.blockNumber >= lo /\ l.blockNumber <= hi)

\* the logs the node returns for argument_filters={"account": address}
LogsOfAccount(addr) ==
  SelectSeq(chain, LAMBDA l : Lower(l.account) = Lower(addr))

\* "Manually filter for our address"
ManualFilter(logs) ==
  SelectSeq(logs, LAMBDA l : l.account # NoneV /\ Lower(l.account) = Lower(display_address))

\* "Extract expiry time safely" and "Ensure expiry_time is an integer"
ExpiryTime(spec) ==
  LET raw == IF Has(spec, "expiresAt") THEN spec.expiresAt ELSE IntV(0)
  IN IF raw.kind = "int" THEN raw.val ELSE 0

\* "if not session_spec"
SpecMissing(spec) == spec.shape = "none" \/ spec.keys = {}

\* mutant of IsActive: the expiry test admits expiresAt = now
IsActiveInclusive(log, revoked_session_hashes, current_timestamp) ==
  /\ ~SpecMissing(log.sessionSpec)
  /\ ExpiryTime(log.sessionSpec) >= current_timestamp
  /\ log.sessionHash \notin revoked_session_hashes

\* is_not_expired and is_not_revoked of one log
IsActive(log, revoked_session_hashes, current_timestamp) ==
  /\ ~SpecMissing(log.sessionSpec)
  /\ ExpiryTime(log.sessionSpec) > current_timestamp
  /\ log.sessionHash \notin revoked_session_hashes

MkEntry(log, now) ==
  [kind |-> "entry", session |-> parse_session_config(log.sessionSpec, now),
   session_hash |-> log.sessionHash, block_number |-> log.blockNumber]

\* the loop "Filter out expired and revoked sessions"
ActiveSessions(logs, revoked_session_hashes, now) ==
  LET kept == SelectSeq(logs, LAMBDA l : IsActive(l, revoked_session_hashes, now))
  IN [i \in 1..Len(kept) |-> MkEntry(kept[i], now)]

\* list.sort(key=block_number, reverse=True): stable, the larger block first
RECURSIVE InsertDesc(_, _)
InsertDesc(x, t) ==
  IF t = <<>> THEN <<x>>
  ELSE IF Head(t).block_number > x.block_number
       THEN <<Head(t)>> \o InsertDesc(x, Tail(t))
       ELSE <<x>> \o t

RECURSIVE SortByBlockDesc(_)
SortByBlockDesc(s) ==
  IF s = <<>> THEN <<>> ELSE InsertDesc(Head(s), SortByBlockDesc(Tail(s)))

\* s["session"]["signer"].lower() raises for a session that is None or has no signer
SignerUnreadable(e) == e.session.kind = "None" \/ e.session.signer = NoneV

\* lines 114-211: what the body does with the logs found; raised: an exception
\* reaches the outer handler
Outcome(isRaised, entry) == [raised |-> isRaised, entry |-> entry]

ResolveSession(logs, revoked, signer, now) ==
  IF Len(logs) = 0 THEN Outcome(FALSE, NoEntry)
  ELSE IF NoneV \in revoked THEN Outcome(TRUE, NoEntry)
  ELSE
    LET active_sessions == SortByBlockDesc(ActiveSessions(logs, revoked, now))
        filtering == signer # NoneV /\ signer # "" /\ Len(active_sessions) > 0
        filtered_sessions ==
          IF filtering
          THEN SelectSeq(active_sessions,
                         LAMBDA e : ~SignerUnreadable(e)
                                    /\ Lower(e.session.signer) = Lower(signer))
          ELSE active_sessions
    IN IF filtering /\ \E i \in 1..Len(active_sessions) : SignerUnreadable(active_sessions[i])
       THEN Outcome(TRUE, NoEntry)
       ELSE IF Len(filtered_sessions) > 0
            THEN Outcome(FALSE, filtered_sessions[1])
            ELSE Outcome(FALSE, NoEntry)

\* mutant of OuterExcept: the exception is re-raised to the caller
OuterExceptPropagates(outcome) == [raised |-> TRUE, entry |-> outcome.entry]

\* the outer "except Exception": logs and returns None
OuterExcept(outcome) == Outcome(FALSE, NoEntry)

Guarded(outcome) == IF outcome.raised THEN OuterExcept(outcome) ELSE outcome

SessionOf(entry) == IF entry.kind = "None" THEN NoneSession ELSE entry.session

\* fetch_session_config returns
Finish(outcome) ==
  /\ pc' = "done"
  /\ raised' = Guarded(outcome).raised
  /\ returned' = Guarded(outcome).entry
  /\ result' = SessionOf(Guarded(outcome).entry)

SignerFilters == {NoneV, "0xab"}

Init ==
  /\ chain \in Chains
  /\ chainRevoked \in {{}} \cup {{HashAt(i)} : i \in 1..Len(chain)}
  /\ block_number = CurrentBlock
  /\ signer_pub_key \in SignerFilters
  /\ pc = "start"
  /\ created_logs = <<>>
  /\ revoked_logs = {}
  /\ all_created_logs = <<>>
  /\ scan_from_block = 0
  /\ from_block = 0
  /\ to_block = 0
  /\ chunkQueries = <<>>
  /\ filterRaised = FALSE
  /\ scanRaised = FALSE
  /\ result = NoneSession
  /\ returned = NoEntry
  /\ raised = FALSE
  /\ TxIdle
  /\ FnIdle
  /\ ProcIdle

\* lines 11-25: the contract instance and web3.eth.block_number
Start ==
  /\ pc = "start"
  /\ pc' = "filtered"
  /\ UNCHANGED <<fnVars, procVars, txVars, chainVars, signer_pub_key, created_logs, revoked_logs, all_created_logs,
                 scan_from_block, from_block, to_block, chunkQueries, filterRaised, scanRaised,
                 result, returned, raised>>

\* lines 11-25 when the RPC raises: the outer handler returns None
StartRaises ==
  /\ pc = "start"
  /\ Finish(Outcome(TRUE, NoEntry))
  /\ UNCHANGED <<fnVars, procVars, txVars, chainVars, signer_pub_key, created_logs, revoked_logs, all_created_logs,
                 scan_from_block, from_block, to_block, chunkQueries, filterRaised, scanRaised>>

\* lines 27-47: the two account-filtered queries
AfterFiltered(created, revoked, didRaise) ==
  /\ created_logs' = created
  /\ revoked_logs' = revoked
  /\ filterRaised' = didRaise
  /\ pc' = IF Len(created) = 0 THEN "recent" ELSE "process"
  /\ UNCHANGED <<fnVars, procVars, txVars, chainVars, signer_pub_key, all_created_logs, scan_from_block,
                 from_block, to_block, chunkQueries, scanRaised, result, returned, raised>>

QueryFiltered ==
  /\ pc = "filtered"
  /\ \/ AfterFiltered(LogsOfAccount(display_address), chainRevoked, FALSE)
     \* an indexer that answers the filtered SessionCreated query with nothing
     \/ AfterFiltered(<<>>, chainRevoked, FALSE)
     \* a SessionRevoked log decoded without its sessionHash
     \/ AfterFiltered(LogsOfAccount(display_address), chainRevoked \cup {NoneV}, FALSE)

\* lines 43-46: either query raised
QueryFilteredRaises ==
  /\ pc = "filtered"
  /\ AfterFiltered(<<>>, {}, TRUE)

\* lines 49-63: the unfiltered scan of the last 1000 blocks
FallbackRecent ==
  /\ pc = "recent"
  /\ LET scan_from == Max(0, block_number - RECENT_WINDOW)
         recent == LogsInRange(scan_from, block_number)
     IN /\ scan_from_block' = scan_from
        /\ all_created_logs' = recent
        /\ from_block' = 0
        /\ to_block' = CHUNK_SIZE
        /\ pc' = IF Len(recent) = 0 /\ scan_from > 0 /\ 0 < scan_from
                 THEN "chunk" ELSE "filter"
  /\ UNCHANGED <<fnVars, procVars, txVars, chainVars, signer_pub_key, created_logs, revoked_logs, chunkQueries,
                 filterRaised, scanRaised, result, returned, raised>>

\* lines 111-112: block_number or the recent-block query raised (the chunk loop
\* and the manual filter catch their own exceptions): created_logs stays empty
FallbackRaises ==
  /\ pc = "recent"
  /\ pc' = "process"
  /\ scanRaised' = TRUE
  /\ UNCHANGED <<fnVars, procVars, txVars, chainVars, signer_pub_key, created_logs, revoked_logs, all_created_logs,
                 scan_from_block, from_block, to_block, chunkQueries, filterRaised,
                 result, returned, raised>>

\* a scan whose next chunk begins at the last block of the chunk before
NextChunkFromLastBlock(to) == to

\* from_block = to_block + 1
NextChunkFrom(to) == to + 1

\* lines 72-92: one iteration of the chunked scan; ok: the chunk query returned
ChunkIteration(ok) ==
  LET to == IF to_block > scan_from_block THEN scan_from_block ELSE to_block
      next_from == NextChunkFrom(to)
  IN /\ chunkQueries' = Append(chunkQueries, <<from_block, to>>)
     /\ all_created_logs' =
          IF ok THEN all_created_logs \o LogsInRange(from_block, to) ELSE all_created_logs
     /\ from_block' = next_from
     /\ to_block' = next_from + CHUNK_SIZE
     /\ pc' = IF next_from < scan_from_block /\ Len(created_logs) = 0
              THEN "chunk" ELSE "filter"
     /\ scanRaised' = (scanRaised \/ ~ok)
     /\ UNCHANGED <<fnVars, procVars, txVars, chainVars, signer_pub_key, created_logs, revoked_logs, scan_from_block,
                    filterRaised, result, returned, raised>>

ChunkScan ==
  /\ pc = "chunk"
  /\ ChunkIteration(TRUE)

\* lines 86-89: the chunk query raised, the scan goes on
ChunkScanRaises ==
  /\ pc = "chunk"
  /\ ChunkIteration(FALSE)

\* lines 94-109
FilterFallback ==
  /\ pc = "filter"
  /\ created_logs' = created_logs \o ManualFilter(all_created_logs)
  /\ pc' = "process"
  /\ UNCHANGED <<fnVars, procVars, txVars, chainVars, signer_pub_key, revoked_logs, all_created_logs, scan_from_block,
                 from_block, to_block, chunkQueries, filterRaised, scanRaised, result, returned, raised>>

\* lines 114-218
ProcessLogs ==
  /\ pc = "process"
  /\ Finish(ResolveSession(created_logs, revoked_logs, signer_pub_key, NowTs))
  /\ UNCHANGED <<fnVars, procVars, txVars, chainVars, signer_pub_key, created_logs, revoked_logs, all_created_logs,
                 scan_from_block, from_block, to_block, chunkQueries, filterRaised, scanRaised>>

Next ==
  \/ Start
  \/ StartRaises
  \/ QueryFiltered
  \/ QueryFilteredRaises
  \/ FallbackRecent
  \/ FallbackRaises
  \/ ChunkScan
  \/ ChunkScanRaises
  \/ FilterFallback
  \/ ProcessLogs

Spec == Init /\ [][Next]_vars

(***************************************************************************)
(* Properties of fetch_session_config                                      *)
(***************************************************************************)
Done == pc = "done"

\* the SessionCreated log an entry of active_sessions was built from
LogOfEntry(e) == CHOOSE l \in {chain[i] : i \in 1..Len(chain)} : l.sessionHash = e.session_hash

CreatedSet == {created_logs[i] : i \in 1..Len(created_logs)}

\* C1: fetch_session_config never returns a session whose sessionHash is in a
\* SessionRevoked event of the account, whichever query produced its
\* SessionCreated log and also when the account-filtered query raised.
C1_NoRevokedSessionReturned ==
  (Done /\ returned.kind = "entry") => returned.session_hash \notin chainRevoked

\* C2: a session that is returned has expiresAt > now; a log with
\* expiresAt <= now (expiresAt = now included) is never the one returned.
C2_NoExpiredSessionReturned ==
  Done =>
    /\ result.kind = "session" => result.expiresAt > NowTs
    /\ returned.kind = "entry" =>
         LogOfEntry(returned).sessionSpec.expiresAt.kind = "int"
         /\ LogOfEntry(returned).sessionSpec.expiresAt.val > NowTs
    /\ (\A l \in CreatedSet : l.sessionSpec.expiresAt.kind = "int"
                              /\ l.sessionSpec.expiresAt.val <= NowTs)
         => result = NoneSession

\* C2 witness: the logs examined hold a session expiring exactly now and the
\* call returned another, unexpired session.
C2_Witness ==
  /\ Done
  /\ result.kind = "session"
  /\ \E l \in CreatedSet : l.sessionSpec.expiresAt = IntV(NowTs)
                           /\ l.blockNumber >= returned.block_number

\* the sessions the specification calls active and matching: present spec,
\* integer expiresAt > now, hash not among the revoked hashes collected, signer
\* equal to the filter without regard to case (any signer without a filter)
RawSigner(l) == IF Has(l.sessionSpec, "signer") THEN l.sessionSpec.signer ELSE NoneV

SpecActive(l) ==
  /\ ~SpecMissing(l.sessionSpec)
  /\ Has(l.sessionSpec, "expiresAt")
  /\ l.sessionSpec.expiresAt.kind = "int"
  /\ l.sessionSpec.expiresAt.val > NowTs
  /\ l.sessionHash \notin revoked_logs

SignerMatches(l) ==
  signer_pub_key = NoneV
  \/ (RawSigner(l) # NoneV /\ Lower(RawSigner(l)) = Lower(signer_pub_key))

Candidates == {l \in CreatedSet : SpecActive(l) /\ SignerMatches(l)}

\* C3: the result is the candidate with the highest block number, and None
\* exactly when there is no candidate; with a filter the signer returned
\* matches it.
C3_MostRecentMatchingReturned ==
  (Done /\ NoneV \notin revoked_logs) =>
    /\ (result = NoneSession) <=> (Candidates = {})
    /\ returned.kind = "entry" =>
         /\ LogOfEntry(returned) \in Candidates
         /\ \A l \in Candidates : l.blockNumber <= returned.block_number
         /\ signer_pub_key # NoneV => Lower(result.signer) = Lower(signer_pub_key)

\* C4: no exception leaves fetch_session_config: it ends with a parsed session
\* or with None, whatever the RPC calls and the decoded logs do.
C4_NeverRaises ==
  /\ raised = FALSE
  /\ Done => (result = NoneSession \/ result.kind = "session")

\* C4 witness: the call has returned after an exception was raised in its body.
C4_Witness ==
  /\ Done
  /\ created_logs # <<>>
  /\ ResolveSession(created_logs, revoked_logs, signer_pub_key, NowTs).raised
  /\ result = NoneSession

\* C5: a malformed SessionCreated log is skipped: it is never the log the
\* returned session comes from, and it does not keep a well-formed active
\* (matching) session of another log from being returned.
C5_MalformedLogsSkipped ==
  (Done /\ NoneV \notin revoked_logs) =>
    /\ returned.kind = "entry" => WellFormed(LogOfEntry(returned).sessionSpec)
    /\ (\E l \in Candidates : WellFormed(l.sessionSpec)) => result.kind = "session"

(***************************************************************************)
(* Hex strings and byte strings.  A hex string "0x..." is the sequence of   *)
(* its digits (0..15) after the prefix, a byte string a sequence of 0..255. *)
(***************************************************************************)
RECURSIVE HexDigits(_)
\* hex(n)[2:] of an integer n >= 0
HexDigits(n) == IF n < 16 THEN <<n>> ELSE HexDigits(n \div 16) \o <<n % 16>>

\* bytes.fromhex of an even number of digits
FromHex(h) == [i \in 1..(Len(h) \div 2) |-> 16 * h[2 * i - 1] + h[2 * i]]

\* agent_transaction.to_bytes: empty for an empty string, a leading 0 added to
\* an odd number of digits
to_bytes(h) ==
  IF h = <<>> THEN <<>>
  ELSE FromHex(IF Len(h) % 2 # 0 THEN <<0>> \o h ELSE h)

Zeros(n) == [i \in 1..n |-> 0]

(***************************************************************************)
(* agent_encode_abi.py.  Python values are tagged records: HexV (a str that *)
(* starts with "0x"), PyDecStr (a str of decimal digits), PyStr (any other *)
(* str), PyInt, PyBool, PyNone, PyList and PyDict.                         *)
(***************************************************************************)
HexV(h) == [t |-> "hex", h |-> h]
PyDecStr(n) == [t |-> "decstr", n |-> n]
\* a str that is neither, given by its UTF-8 bytes
PyStr(bytes) == [t |-> "str", bytes |-> bytes]
PyInt(n) == [t |-> "int", n |-> n]
PyBool(b) == [t |-> "bool", b |-> b]
PyList(items) == [t |-> "list", items |-> items]
PyDict(d) == [t |-> "dict", d |-> d]

\* an ABI parameter {"type", "name", "components"}: the type string is kept as
\* its base word, its bit or byte size (-1: none) and its array suffixes from
\* the innermost to the outermost (-1: "[]", K: "[K]")
Param(base, size, dims, name, components) ==
  [base |-> base, size |-> size, dims |-> dims, name |-> name, components |-> components,
   junk |-> FALSE]

\* a type string with other characters between the size and the array
\* suffixes, such as "uintx" or "bytes32y[]"
JunkParam(base, size, dims) == [Param(base, size, dims, NoneV, <<>>) EXCEPT !.junk = TRUE]

Prepared(dynamic, encoded) == [ok |-> TRUE, dynamic |-> dynamic, encoded |-> encoded]
\* a ValueError (or TypeError, KeyError, IndexError) raised by the encoder
Raised == [ok |-> FALSE, dynamic |-> FALSE, encoded |-> <<>>]

\* size(hex_value): the byte length
size(h) == Len(h) \div 2

\* pad_hex that puts size bytes of zeros at the side whatever the length
pad_hex_by_size(h, dir, sz) ==
  IF size(h) > sz THEN h
  ELSE IF dir = "right" THEN h \o Zeros(sz * 2) ELSE Zeros(sz * 2) \o h

\* pad_hex(hex_value, dir, size)
pad_hex(h, dir, sz) ==
  IF size(h) > sz THEN h
  ELSE IF dir = "right" THEN h \o Zeros(Max(0, sz * 2 - Len(h)))
       ELSE Zeros(Max(0, sz * 2 - Len(h))) \o h

RECURSIVE concat(_)
\* concat(hex_values)
concat(hs) == IF hs = <<>> THEN <<>> ELSE Head(hs) \o concat(Tail(hs))

\* the digits of n & (2 ** (size * 8) - 1) for n >= 0; the integers of the
\* model are below 2^31, so the mask only cuts when size < 4
MaskedDigits(n, sz) == HexDigits(IF sz >= 4 THEN n ELSE n % (2 ^ (sz * 8)))

\* the digits of 2 ** (size * 8) + n for -(2 ** (size * 8)) <= n < 0: the
\* complement of the digits of -n - 1 on size * 2 digits
TwosComplement(n, sz) ==
  LET m == pad_hex(HexDigits(-n - 1), "left", sz)
  IN [i \in 1..Len(m) |-> 15 - m[i]]

\* number_to_hex(number, size, signed) for an integer
IntToHex(n, sz, signed) ==
  IF n >= 0
  THEN pad_hex(IF signed THEN HexDigits(n) ELSE MaskedDigits(n, sz), "left", sz)
  ELSE IF sz >= 4 THEN pad_hex(TwosComplement(n, sz), "left", sz)
       ELSE IF signed /\ 2 ^ (sz * 8) + n < 0 THEN <<>>
            ELSE pad_hex(HexDigits((2 ^ (sz * 8) + n) % (2 ^ (sz * 8))), "left", sz)

\* number_to_hex raises for a bool, a str that is no number, None
NumberOk(v, sz, signed) ==
  \/ v.t = "hex"
  \/ v.t = "decstr"
  \/ v.t = "int" /\ ~(v.n < 0 /\ signed /\ sz < 4 /\ 2 ^ (sz * 8) + v.n < 0)

number_to_hex(v, sz, signed) ==
  IF v.t = "hex" THEN pad_hex(v.h, "left", sz) ELSE IntToHex(v.n, sz, signed)

\* the length and offset words: number_to_hex(n) with the default size 32
Word(n) == IntToHex(n, 32, FALSE)

\* is_address: "0x" and 40 hexadecimal digits
is_address(v) == v.t = "hex" /\ Len(v.h) = 40

encode_address(v) ==
  IF is_address(v) THEN Prepared(FALSE, pad_hex(v.h, "left", 32)) ELSE Raised

encode_bool(v) ==
  IF v.t = "bool" THEN Prepared(FALSE, pad_hex(IF v.b THEN <<0, 1>> ELSE <<0, 0>>, "left", 32))
  ELSE Raised

encode_number(v, signed) ==
  IF NumberOk(v, 32, signed) THEN Prepared(FALSE, number_to_hex(v, 32, signed)) ELSE Raised

encode_bytes(v, param) ==
  IF v.t # "hex" THEN Raised
  ELSE IF param.size = -1
       THEN Prepared(TRUE,
              Word(size(v.h)) \o
              (IF size(v.h) % 32 # 0
               THEN pad_hex(v.h, "right", ((size(v.h) + 31) \div 32) * 32)
               ELSE v.h))
       ELSE IF size(v.h) # param.size THEN Raised
            ELSE Prepared(FALSE, pad_hex(v.h, "right", 32))

RECURSIVE DecDigits(_)
\* str(n) of an integer n >= 0
DecDigits(n) == IF n < 10 THEN <<n>> ELSE DecDigits(n \div 10) \o <<n % 10>>

\* value.encode("utf-8") of a str
Utf8(v) ==
  IF v.t = "str" THEN v.bytes
  ELSE IF v.t = "hex"
       THEN <<48, 120>> \o [i \in 1..Len(v.h) |-> IF v.h[i] < 10 THEN 48 + v.h[i] ELSE 87 + v.h[i]]
  ELSE IF v.t = "decstr" THEN [i \in 1..Len(DecDigits(v.n)) |-> 48 + DecDigits(v.n)[i]]
  ELSE <<>>

\* bytes.hex()
ToHex(bs) == [i \in 1..(2 * Len(bs)) |-> IF i % 2 = 1 THEN bs[(i + 1) \div 2] \div 16
                                                      ELSE bs[i \div 2] % 16]

\* encode_string: the length, then the 32-byte parts, the last padded on the right
encode_string(v) ==
  IF v.t \notin {"str", "hex", "decstr", "emptystr"} THEN Raised
  ELSE LET hex_value == ToHex(Utf8(v))
           hex_size == size(hex_value)
           parts == [i \in 1..((hex_size + 31) \div 32) |->
                       pad_hex(SubSeq(hex_value, (i - 1) * 64 + 1, Min(i * 32, hex_size) * 2),
                               "right", 32)]
       IN Prepared(TRUE, Word(hex_size) \o concat(parts))

\* param["type"] == word: no size, nothing else behind the word
IsExactly(param, word) == param.base = word /\ param.size = -1 /\ ~param.junk

\* encode_params(prepared_params): the heads, then the dynamic payloads
RECURSIVE StaticSize(_)
StaticSize(ps) ==
  IF ps = <<>> THEN 0
  ELSE (IF Head(ps).dynamic THEN 32 ELSE size(Head(ps).encoded)) + StaticSize(Tail(ps))

RECURSIVE DynamicSizeBefore(_, _)
\* dynamic_size when parameter i is reached
DynamicSizeBefore(ps, i) ==
  IF i <= 1 THEN 0
  ELSE DynamicSizeBefore(ps, i - 1)
       + (IF ps[i - 1].dynamic THEN size(ps[i - 1].encoded) ELSE 0)

\* static_parts with every offset pointing at the end of the heads
static_parts_same_offset(ps) ==
  [i \in 1..Len(ps) |-> IF ps[i].dynamic THEN Word(StaticSize(ps)) ELSE ps[i].encoded]

static_parts(ps) ==
  [i \in 1..Len(ps) |->
     IF ps[i].dynamic THEN Word(StaticSize(ps) + DynamicSizeBefore(ps, i))
     ELSE ps[i].encoded]

dynamic_parts(ps) ==
  LET dyn == SelectSeq(ps, LAMBDA q : q.dynamic)
  IN [i \in 1..Len(dyn) |-> dyn[i].encoded]

encode_params(ps) == concat(static_parts(ps) \o dynamic_parts(ps))

AllOk(ps) == \A i \in 1..Len(ps) : ps[i].ok
AnyDynamic(ps) == \E i \in 1..Len(ps) : ps[i].dynamic
Encodeds(ps) == [i \in 1..Len(ps) |-> ps[i].encoded]

RECURSIVE prepare_param(_, _)
RECURSIVE encode_array(_, _, _)
RECURSIVE encode_tuple(_, _)

\* value[i] or value[name] for component i of a tuple; Raised stands for the
\* KeyError / IndexError / TypeError of the lookup
ComponentValue(value, component, i) ==
  IF value.t = "list"
  THEN IF i <= Len(value.items) THEN value.items[i] ELSE Raised
  ELSE IF value.t = "dict"
       THEN IF component.name # NoneV /\ component.name \in DOMAIN value.d
            THEN value.d[component.name]
            ELSE IF i - 1 < Cardinality(DOMAIN value.d) THEN Raised ELSE PyNone
       ELSE Raised

encode_tuple(value, param) ==
  LET vals == [i \in 1..Len(param.components) |->
                 ComponentValue(value, param.components[i], i)]
      lookupOk == \A i \in 1..Len(vals) : vals[i] # Raised
      ps == [i \in 1..Len(vals) |-> prepare_param(param.components[i], vals[i])]
  IN IF ~lookupOk THEN Raised
     ELSE IF ~AllOk(ps) THEN Raised
     ELSE Prepared(AnyDynamic(ps),
                   IF AnyDynamic(ps) THEN encode_params(ps) ELSE concat(Encodeds(ps)))

\* array_encoding with the length word in front of every array that is dynamic
array_encoding_length_prefixed(ps, length) ==
  IF length = -1 \/ AnyDynamic(ps)
  THEN Prepared(TRUE, IF Len(ps) > 0 THEN Word(Len(ps)) \o encode_params(ps)
                      ELSE Word(Len(ps)))
  ELSE Prepared(FALSE, concat(Encodeds(ps)))

\* the end of encode_array: the encoding of the prepared items; length is -1
\* for T[] (length is None)
array_encoding(ps, length) ==
  IF length = -1
  THEN Prepared(TRUE, IF Len(ps) > 0 THEN Word(Len(ps)) \o encode_params(ps)
                      ELSE Word(Len(ps)))
  ELSE IF AnyDynamic(ps) THEN Prepared(TRUE, encode_params(ps))
       ELSE Prepared(FALSE, concat(Encodeds(ps)))

encode_array(value, length, param) ==
  LET items == IF value.t = "list" THEN value.items
               ELSE IF value.t = "dict" /\ "type" \notin DOMAIN value.d THEN <<value>>
               ELSE <<>>
      ps == [i \in 1..Len(items) |-> prepare_param(param, items[i])]
  IN IF value.t # "list" /\ ~(value.t = "dict" /\ "type" \notin DOMAIN value.d) THEN Raised
     ELSE IF length # -1 /\ Len(items) # length THEN Raised
     ELSE IF ~AllOk(ps) THEN Raised
     ELSE array_encoding(ps, length)

prepare_param(param, value) ==
  IF Len(param.dims) > 0
  THEN encode_array(value, param.dims[Len(param.dims)],
                    [param EXCEPT !.dims = SubSeq(param.dims, 1, Len(param.dims) - 1),
                                  !.name = NoneV])
  ELSE IF IsExactly(param, "tuple") THEN encode_tuple(value, param)
  ELSE IF IsExactly(param, "address") THEN encode_address(value)
  ELSE IF IsExactly(param, "bool") THEN encode_bool(value)
  ELSE IF param.base = "uint" THEN encode_number(value, FALSE)
  ELSE IF param.base = "int" THEN encode_number(value, TRUE)
  ELSE IF param.base = "bytes" THEN encode_bytes(value, param)
  ELSE IF IsExactly(param, "string") THEN encode_string(value)
  ELSE Raised

prepare_params(params, values) ==
  [i \in 1..Len(params) |-> prepare_param(params[i], values[i])]

\* encode_abi_params_values(params, values): the hex string, or an exception
encode_abi_params_values(params, values) ==
  IF Len(params) # Len(values) THEN Raised
  ELSE IF ~AllOk(prepare_params(params, values)) THEN Raised
  ELSE Prepared(TRUE, encode_params(prepare_params(params, values)))

\* get_session_params()
USAGE_LIMIT_COMPONENTS ==
  << Param("uint", 8, <<>>, "limitType", <<>>),
     Param("uint", 256, <<>>, "limit", <<>>),
     Param("uint", 256, <<>>, "period", <<>>) >>

CONSTRAINT_COMPONENTS ==
  << Param("uint", 8, <<>>, "condition", <<>>),
     Param("uint", 64, <<>>, "index", <<>>),
     Param("bytes", 32, <<>>, "refValue", <<>>),
     Param("tuple", -1, <<>>, "limit", USAGE_LIMIT_COMPONENTS) >>

CALL_POLICY_COMPONENTS ==
  << Param("address", -1, <<>>, "target", <<>>),
     Param("bytes", 4, <<>>, "selector", <<>>),
     Param("uint", 256, <<>>, "maxValuePerUse", <<>>),
     Param("tuple", -1, <<>>, "valueLimit", USAGE_LIMIT_COMPONENTS),
     Param("tuple", -1, <<-1>>, "constraints", CONSTRAINT_COMPONENTS) >>

TRANSFER_POLICY_COMPONENTS ==
  << Param("address", -1, <<>>, "target", <<>>),
     Param("uint", 256, <<>>, "maxValuePerUse", <<>>),
     Param("tuple", -1, <<>>, "valueLimit", USAGE_LIMIT_COMPONENTS) >>

SESSION_SPEC_COMPONENTS ==
  << Param("address", -1, <<>>, "signer", <<>>),
     Param("uint", 256, <<>>, "expiresAt", <<>>),
     Param("tuple", -1, <<>>, "feeLimit", USAGE_LIMIT_COMPONENTS),
     Param("tuple", -1, <<-1>>, "callPolicies", CALL_POLICY_COMPONENTS),
     Param("tuple", -1, <<-1>>, "transferPolicies", TRANSFER_POLICY_COMPONENTS) >>

get_session_params ==
  << Param("tuple", -1, <<>>, "sessionSpec", SESSION_SPEC_COMPONENTS),
     Param("uint", 64, <<-1>>, NoneV, <<>>) >>

(***************************************************************************)
(* rlp.encode                                                              *)
(***************************************************************************)
RlpBytes(b) == [kind |-> "bytes", val |-> b]
RlpList(items) == [kind |-> "list", val |-> items]

RECURSIVE BigEndian(_)
\* the minimal big-endian bytes of n > 0
BigEndian(n) == IF n < 256 THEN <<n>> ELSE BigEndian(n \div 256) \o <<n % 256>>

\* the length prefix of a payload: short form up to 55 bytes, else long form
RlpPrefix(offset, len) ==
  IF len <= 55 THEN <<offset + len>>
  ELSE <<offset + 55 + Len(BigEndian(len))>> \o BigEndian(len)

RECURSIVE RlpEncode(_)
RECURSIVE RlpPayload(_)
\* the concatenated encodings of the items of a list
RlpPayload(items) ==
  IF items = <<>> THEN <<>> ELSE RlpEncode(Head(items)) \o RlpPayload(Tail(items))

RlpEncode(item) ==
  IF item.kind = "bytes"
  THEN IF Len(item.val) = 1 /\ item.val[1] < 128 THEN item.val
       ELSE RlpPrefix(128, Len(item.val)) \o item.val
  ELSE RlpPrefix(192, Len(RlpPayload(item.val))) \o RlpPayload(item.val)

(***************************************************************************)
(* agent_transaction.py: serialize_transaction                             *)
(***************************************************************************)
\* the transaction type prefix "0x71"
TX_TYPE == 113

\* to_bytes(hex(n)[2:]) if n else b""
ScalarBytes(n) == IF n = 0 THEN <<>> ELSE to_bytes(HexDigits(n))

\* the str ""
PyEmptyStr == [t |-> "emptystr"]

\* bool(x) of None or a str: "0x" and longer strings are true
Truthy(x) == x.t = "hex"

\* to_bytes(remove_0x_prefix(x)) if x else b""  (to, from, data,
\* customSignature; None and "" give b"")
HexFieldBytes(x) == IF Truthy(x) THEN to_bytes(x.h) ELSE <<>>

\* hex() of a negative number is "-0x..": the digits left after [2:] are no
\* hexadecimal string and bytes.fromhex raises
ScalarsSerializable(tx) ==
  /\ tx.nonce >= 0
  /\ tx.maxPriorityFeePerGas >= 0
  /\ tx.maxFeePerGas >= 0
  /\ tx.gasLimit >= 0
  /\ tx.value >= 0
  /\ tx.chainId >= 0
  /\ tx.gasPerPubdataByteLimit >= 0

\* mutant of SerializedFields: value and data change places and the second
\* chain ID is left out
SerializedFieldsReordered(tx) ==
  << RlpBytes(ScalarBytes(tx.nonce)),
     RlpBytes(ScalarBytes(tx.maxPriorityFeePerGas)),
     RlpBytes(ScalarBytes(tx.maxFeePerGas)),
     RlpBytes(ScalarBytes(tx.gasLimit)),
     RlpBytes(HexFieldBytes(tx.to)),
     RlpBytes(HexFieldBytes(tx.data)),
     RlpBytes(ScalarBytes(tx.value)),
     RlpBytes(to_bytes(HexDigits(tx.chainId))),
     RlpBytes(<<>>),
     RlpBytes(<<>>),
     RlpBytes(<<>>),
     RlpBytes(HexFieldBytes(tx.from)),
     RlpBytes(to_bytes(HexDigits(tx.gasPerPubdataByteLimit))),
     RlpList(tx.factoryDeps),
     RlpBytes(HexFieldBytes(tx.customSignature)),
     RlpList(<<>>) >>

\* the list serialized_transaction of lines 358-375
SerializedFields(tx) ==
  << RlpBytes(ScalarBytes(tx.nonce)),
     RlpBytes(ScalarBytes(tx.maxPriorityFeePerGas)),
     RlpBytes(ScalarBytes(tx.maxFeePerGas)),
     RlpBytes(ScalarBytes(tx.gasLimit)),
     RlpBytes(HexFieldBytes(tx.to)),
     RlpBytes(ScalarBytes(tx.value)),
     RlpBytes(HexFieldBytes(tx.data)),
     RlpBytes(to_bytes(HexDigits(tx.chainId))),
     RlpBytes(<<>>),
     RlpBytes(<<>>),
     RlpBytes(to_bytes(HexDigits(tx.chainId))),
     RlpBytes(HexFieldBytes(tx.from)),
     RlpBytes(to_bytes(HexDigits(tx.gasPerPubdataByteLimit))),
     RlpList(tx.factoryDeps),
     RlpBytes(HexFieldBytes(tx.customSignature)),
     RlpList(<<>>) >>

\* serialize_transaction: "0x71" + rlp.encode(...).hex(), None on an exception
serialize_transaction(tx) ==
  IF tx.kind = "None" \/ ~ScalarsSerializable(tx) THEN NoBytes
  ELSE [ok |-> TRUE, bytes |-> <<TX_TYPE>> \o RlpEncode(RlpList(SerializedFields(tx)))]

(***************************************************************************)
(* agent_transaction.py: prepare_transaction, sign_transaction and         *)
(* send_transaction.  Fees are counted in gwei (10^9 wei): the integers of *)
(* the model end at 2^31 - 1.                                              *)
(***************************************************************************)
GAS_LIMIT == 196807
GAS_PER_PUBDATA == 50000
\* 6250000000000 wei
MAX_FEE_PER_GAS == 6250
\* CHAIN["id"]
CHAIN_ID == 240

Rep(d, n) == [i \in 1..n |-> d[((i - 1) % Len(d)) + 1]]

\* SSO_WALLET_ADDRESS and TARGET_ADDRESS of the environment
WALLET_ADDRESS == HexV(Rep(<<10, 1>>, 40))
TARGET_ADDRESS == HexV(Rep(<<11, 2>>, 40))
\* CONTRACTS["session"] = 0xfebC82bBFC6FB8666AC45fa8a601DfA34Ce30710
SESSION_CONTRACT ==
  HexV(<<15, 14, 11, 12, 8, 2, 11, 11, 15, 12, 6, 15, 11, 8, 6, 6, 6, 10, 12, 4,
         5, 15, 10, 8, 10, 6, 0, 1, 13, 15, 10, 3, 4, 12, 14, 3, 0, 7, 1, 0>>)
ZERO_ADDRESS == HexV(Zeros(40))

MkTx(from, to, nonce, value, data, maxFee, sig) ==
  [kind |-> "tx", txType |-> TX_TYPE, from |-> from, to |-> to,
   gasLimit |-> GAS_LIMIT, gasPerPubdataByteLimit |-> GAS_PER_PUBDATA,
   maxFeePerGas |-> maxFee, maxPriorityFeePerGas |-> 0, paymaster |-> 0,
   nonce |-> nonce, value |-> value, data |-> data, factoryDeps |-> <<>>,
   paymasterInput |-> HexV(<<>>), chainId |-> CHAIN_ID, customSignature |-> sig]

\* a nonce that is not read from the chain
prepare_transaction_nonce_zero(nonce, base_fee, amt) ==
  MkTx(WALLET_ADDRESS, TARGET_ADDRESS, 0, amt, HexV(<<>>), MAX_FEE_PER_GAS, PyNone)

\* prepare_transaction with the nonce and the base fee the chain answered:
\* max_fee_per_gas = int(base_fee * 2.5) is computed and not used
prepare_transaction(nonce, base_fee, amt) ==
  LET max_fee_per_gas == (5 * base_fee) \div 2
  IN MkTx(WALLET_ADDRESS, TARGET_ADDRESS, nonce, amt, HexV(<<>>), MAX_FEE_PER_GAS, PyNone)

\* hash_typed_data: eth_abi's encode raises for a uint256 field below zero
MessageHashable(tx) ==
  /\ tx.txType >= 0
  /\ tx.gasLimit >= 0
  /\ tx.gasPerPubdataByteLimit >= 0
  /\ tx.maxFeePerGas >= 0
  /\ tx.maxPriorityFeePerGas >= 0
  /\ tx.nonce >= 0
  /\ tx.value >= 0

\* Web3.to_checksum_address: an exception unless 20 bytes; the case of the
\* digits does not change their values
ChecksumOk(a) == a.t = "hex" /\ Len(a.h) = 40

\* lines 143-152: to_address
ToAddress(to) == IF to = HexV(<<0>>) \/ to = ZERO_ADDRESS THEN ZERO_ADDRESS ELSE to

\* session_config.get(key, default)
Get(cfg, key, default) == IF key \in DOMAIN cfg.d THEN cfg.d[key] ELSE default

EmptyDict == PyDict([k \in {} |-> PyNone])

\* lines 169-178
session_values(cfg) ==
  << PyDict([k \in {"signer", "expiresAt", "feeLimit", "callPolicies", "transferPolicies"} |->
       CASE k = "signer" -> Get(cfg, k, PyEmptyStr)
         [] k = "expiresAt" -> Get(cfg, k, PyInt(0))
         [] k = "feeLimit" -> Get(cfg, k, EmptyDict)
         [] k = "callPolicies" -> Get(cfg, k, PyList(<<>>))
         [] k = "transferPolicies" -> Get(cfg, k, PyList(<<>>))]),
     PyList(<<PyDecStr(0), PyDecStr(0)>>) >>

\* lines 185-189
signature_params ==
  << Param("bytes", -1, <<>>, "sessionKeySignedHash", <<>>),
     Param("address", -1, <<>>, "sessionContract", <<>>),
     Param("bytes", -1, <<>>, "validatorData", <<>>) >>

\* a signature made without reading the session configuration
sign_transaction_any_config(tx, cfg, signed_hash) ==
  IF tx.kind = "None" \/ ~MessageHashable(tx) THEN NoneTx
  ELSE [tx EXCEPT !.to = ToAddress(tx.to),
                  !.chainId = CHAIN_ID,
                  !.customSignature = HexV(signed_hash)]

\* sign_transaction, given the 65 bytes r, s, 27 + v of the session key's
\* signature of the typed-data hash; NoneTx on any exception
sign_transaction(tx, cfg, signed_hash) ==
  IF tx.kind = "None" \/ ~MessageHashable(tx) THEN NoneTx
  ELSE IF ~(ToAddress(tx.to) = ZERO_ADDRESS \/ ChecksumOk(tx.to)) THEN NoneTx
  ELSE IF cfg.t # "dict" THEN NoneTx
  ELSE LET validator_data == encode_abi_params_values(get_session_params, session_values(cfg))
       IN IF ~validator_data.ok THEN NoneTx
          ELSE LET custom_signature ==
                     encode_abi_params_values(signature_params,
                       <<HexV(signed_hash), SESSION_CONTRACT, HexV(validator_data.encoded)>>)
               IN IF ~custom_signature.ok \/ ~ChecksumOk(tx.from) THEN NoneTx
                  ELSE [tx EXCEPT !.to = ToAddress(tx.to),
                                  !.chainId = CHAIN_ID,
                                  !.customSignature = HexV(custom_signature.encoded)]

\* the hash send_raw_transaction answers
TX_HASH == "0xhash"

Sent(serialized, raw, hash) == [serialized |-> serialized, broadcasts |-> raw, tx_hash |-> hash]

\* mutant of send_transaction: the transaction is not asked for a signature
send_transaction_unchecked(tx, rpcAccepts) ==
  IF tx.kind = "None" THEN Sent(NoBytes, <<>>, NoneV)
  ELSE LET serialized == serialize_transaction(tx)
       IN IF ~serialized.ok THEN Sent(serialized, <<>>, NoneV)
          ELSE Sent(serialized, <<serialized.bytes>>, IF rpcAccepts THEN TX_HASH ELSE NoneV)

\* send_transaction; rpcAccepts: send_raw_transaction does not raise
send_transaction(tx, rpcAccepts) ==
  IF tx.kind = "None" THEN Sent(NoBytes, <<>>, NoneV)
  ELSE IF ~Truthy(tx.customSignature) THEN Sent(NoBytes, <<>>, NoneV)
  ELSE LET serialized == serialize_transaction(tx)
       IN IF ~serialized.ok THEN Sent(serialized, <<>>, NoneV)
          ELSE Sent(serialized, <<serialized.bytes>>, IF rpcAccepts THEN TX_HASH ELSE NoneV)

(***************************************************************************)
(* The pipeline prepare -> sign -> send of agent_main.py, agent_send.py    *)
(* and agent_swap.py                                                       *)
(***************************************************************************)
MaxNonce == 1
\* base fees of the latest block, in gwei
BaseFees == {0, 2, 2500, 4000}
Amounts == {-1, 0, 1000}

USAGE_LIMIT(limitType, limit) ==
  PyDict([k \in {"limitType", "limit", "period"} |->
    CASE k = "limitType" -> PyInt(limitType) [] k = "limit" -> PyInt(limit) [] k = "period" -> PyInt(0)])

TRANSFER_POLICY ==
  PyDict([k \in {"target", "maxValuePerUse", "valueLimit"} |->
    CASE k = "target" -> TARGET_ADDRESS
      [] k = "maxValuePerUse" -> PyInt(1000)
      [] k = "valueLimit" -> USAGE_LIMIT(0, 0)])

SESSION_SIGNER == HexV(Rep(<<12, 3>>, 40))

\* a session configuration as parse_session_config builds it
FULL_SESSION ==
  [k \in {"signer", "expiresAt", "feeLimit", "callPolicies", "transferPolicies"} |->
    CASE k = "signer" -> SESSION_SIGNER
      [] k = "expiresAt" -> PyInt(NowTs + 3600)
      [] k = "feeLimit" -> USAGE_LIMIT(1, 100)
      [] k = "callPolicies" -> PyList(<<>>)
      [] k = "transferPolicies" -> PyList(<<TRANSFER_POLICY>>)]

SessionFields == DOMAIN FULL_SESSION

Without(d, key) == [k \in (DOMAIN d) \ {key} |-> d[k]]

\* the session configurations sign_transaction is given: none, a complete
\* one, one that lacks a field, one whose signer could not be read
SessionConfigs ==
  {PyNone, PyDict(FULL_SESSION), PyDict([FULL_SESSION EXCEPT !["signer"] = PyNone])}
  \cup {PyDict(Without(FULL_SESSION, key)) : key \in SessionFields}

\* the 65 bytes the session key's signature can be
SignedHashes == {Rep(<<1, 2>>, 130), Rep(<<15>>, 130)}

WZKCRO_ADDRESS == HexV(Rep(<<13, 4>>, 40))
\* the calls the callers put into the prepared transaction: the transfer to
\* the null address, the deposit() call
CallerCalls ==
  { [to |-> ZERO_ADDRESS, data |-> HexV(<<>>)],
    [to |-> WZKCRO_ADDRESS, data |-> HexV(<<13, 0, 14, 3, 0, 13, 11, 0>>)] }

InitTx ==
  /\ FetchIdle
  /\ FnIdle
  /\ ProcIdle
  /\ baseFeePerGas \in BaseFees
  /\ txCount \in 0..MaxNonce
  /\ amount \in Amounts
  /\ session_config \in SessionConfigs
  /\ txpc = "prepare"
  /\ tx_params = NoneTx
  /\ signed_tx = NoneTx
  /\ send_arg = NoneTx
  /\ serialized_tx = NoBytes
  /\ broadcasts = <<>>
  /\ tx_hash = NoneV

Prepare ==
  /\ txpc = "prepare"
  /\ tx_params' = prepare_transaction(txCount, baseFeePerGas, amount)
  /\ txpc' = "prepared"
  /\ UNCHANGED <<fnVars, procVars, chainVars, fetchVars, baseFeePerGas, txCount, amount, session_config,
                 signed_tx, send_arg, serialized_tx, broadcasts, tx_hash>>

\* get_transaction_count or get_block raises: the except branch returns None
PrepareRaises ==
  /\ txpc = "prepare"
  /\ tx_params' = NoneTx
  /\ txpc' = "prepared"
  /\ UNCHANGED <<fnVars, procVars, chainVars, fetchVars, baseFeePerGas, txCount, amount, session_config,
                 signed_tx, send_arg, serialized_tx, broadcasts, tx_hash>>

\* agent_send.py and agent_swap.py: data, to and from are set by the caller
CallerSetsCall ==
  /\ txpc = "prepared"
  /\ tx_params.kind = "tx"
  /\ \E c \in CallerCalls :
       tx_params' = [tx_params EXCEPT !.data = c.data, !.to = c.to, !.from = WALLET_ADDRESS]
  /\ txpc' = "edited"
  /\ UNCHANGED <<fnVars, procVars, chainVars, fetchVars, baseFeePerGas, txCount, amount, session_config,
                 signed_tx, send_arg, serialized_tx, broadcasts, tx_hash>>

Sign ==
  /\ txpc \in {"prepared", "edited"}
  /\ tx_params.kind = "tx"
  /\ \E signed_hash \in SignedHashes :
       signed_tx' = sign_transaction(tx_params, session_config, signed_hash)
  /\ txpc' = "signed"
  /\ UNCHANGED <<fnVars, procVars, chainVars, fetchVars, baseFeePerGas, txCount, amount, session_config,
                 tx_params, send_arg, serialized_tx, broadcasts, tx_hash>>

Send ==
  /\ txpc = "signed"
  /\ signed_tx.kind = "tx"
  /\ \E rpcAccepts \in BOOLEAN :
       LET sent == send_transaction(signed_tx, rpcAccepts)
       IN /\ serialized_tx' = sent.serialized
          /\ broadcasts' = broadcasts \o sent.broadcasts
          /\ tx_hash' = sent.tx_hash
  /\ send_arg' = signed_tx
  /\ txpc' = "sent"
  /\ UNCHANGED <<fnVars, procVars, chainVars, fetchVars, baseFeePerGas, txCount, amount, session_config,
                 tx_params, signed_tx>>

\* "if not tx_params" and "if not signed_tx": the caller gives up
GiveUp ==
  /\ \/ txpc = "prepared" /\ tx_params.kind = "None"
     \/ txpc = "signed" /\ signed_tx.kind = "None"
  /\ txpc' = "failed"
  /\ UNCHANGED <<fnVars, procVars, chainVars, fetchVars, baseFeePerGas, txCount, amount, session_config,
                 tx_params, signed_tx, send_arg, serialized_tx, broadcasts, tx_hash>>

NextTx ==
  \/ Prepare
  \/ PrepareRaises
  \/ CallerSetsCall
  \/ Sign
  \/ Send
  \/ GiveUp

SpecTx == InitTx /\ [][NextTx]_vars

(***************************************************************************)
(* serialize_transaction and send_transaction given any transaction        *)
(***************************************************************************)
\* the customSignature entry: absent, "", "0x", some bytes
ApiSignatures == {PyNone, PyEmptyStr, HexV(<<>>), HexV(<<1, 2, 3>>)}

ApiTransactions ==
  { [MkTx(WALLET_ADDRESS, TARGET_ADDRESS, nonce, value, HexV(<<>>), maxFee, sig)
       EXCEPT !.maxPriorityFeePerGas = maxPriorityFee, !.gasLimit = gasLimit,
              !.chainId = chainId, !.gasPerPubdataByteLimit = gasPerPubdata] :
      nonce \in {0, 1, 256}, value \in {-1, 0, 1, 65536}, maxFee \in {0, MAX_FEE_PER_GAS},
      sig \in ApiSignatures, maxPriorityFee \in {0, 1}, gasLimit \in {0, GAS_LIMIT},
      chainId \in {0, CHAIN_ID}, gasPerPubdata \in {0, GAS_PER_PUBDATA} }

InitApi ==
  /\ FetchIdle
  /\ FnIdle
  /\ ProcIdle
  /\ baseFeePerGas = 0
  /\ txCount = 0
  /\ amount = 0
  /\ session_config = PyNone
  /\ txpc = "api"
  /\ tx_params \in ApiTransactions
  /\ signed_tx = NoneTx
  /\ send_arg = NoneTx
  /\ serialized_tx = NoBytes
  /\ broadcasts = <<>>
  /\ tx_hash = NoneV

ApiSerialize ==
  /\ txpc = "api"
  /\ serialized_tx' = serialize_transaction(tx_params)
  /\ txpc' = "serialized"
  /\ UNCHANGED <<fnVars, procVars, chainVars, fetchVars, baseFeePerGas, txCount, amount, session_config,
                 tx_params, signed_tx, send_arg, broadcasts, tx_hash>>

ApiSend ==
  /\ txpc = "api"
  /\ \E rpcAccepts \in BOOLEAN :
       LET sent == send_transaction(tx_params, rpcAccepts)
       IN /\ serialized_tx' = sent.serialized
          /\ broadcasts' = broadcasts \o sent.broadcasts
          /\ tx_hash' = sent.tx_hash
  /\ send_arg' = tx_params
  /\ txpc' = "sent"
  /\ UNCHANGED <<fnVars, procVars, chainVars, fetchVars, baseFeePerGas, txCount, amount, session_config,
                 tx_params, signed_tx>>

NextApi ==
  \/ ApiSerialize
  \/ ApiSend

SpecApi == InitApi /\ [][NextApi]_vars

(***************************************************************************)
(* Claims about the transaction functions                                  *)
(***************************************************************************)
RECURSIVE BytesToInt(_)
\* the integer a big-endian byte string stands for
BytesToInt(bs) ==
  IF bs = <<>> THEN 0
  ELSE 256 * BytesToInt(SubSeq(bs, 1, Len(bs) - 1)) + bs[Len(bs)]

\* reading RLP: the kind, the first payload index and the payload length of
\* the item that starts at index p of b
RlpHeader(b, p) ==
  LET b0 == b[p]
  IN IF b0 < 128 THEN [kind |-> "bytes", start |-> p, len |-> 1]
     ELSE IF b0 <= 183 THEN [kind |-> "bytes", start |-> p + 1, len |-> b0 - 128]
     ELSE IF b0 <= 191
          THEN [kind |-> "bytes", start |-> p + 1 + (b0 - 183),
                len |-> BytesToInt(SubSeq(b, p + 1, p + (b0 - 183)))]
     ELSE IF b0 <= 247 THEN [kind |-> "list", start |-> p + 1, len |-> b0 - 192]
     ELSE [kind |-> "list", start |-> p + 1 + (b0 - 247),
           len |-> BytesToInt(SubSeq(b, p + 1, p + (b0 - 247)))]

RECURSIVE RlpItems(_, _, _)
\* the items that fill b[p..last], each with its kind and its payload
RlpItems(b, p, last) ==
  IF p > last THEN <<>>
  ELSE LET h == RlpHeader(b, p)
       IN <<[kind |-> h.kind, val |-> SubSeq(b, h.start, h.start + h.len - 1)]>>
          \o RlpItems(b, h.start + h.len, last)

\* the items of the list that b is the RLP encoding of
RlpDecodeList(b) ==
  IF b = <<>> THEN [ok |-> FALSE, items |-> <<>>]
  ELSE LET h == RlpHeader(b, 1)
       IN IF h.kind = "list" /\ h.start + h.len - 1 = Len(b)
          THEN [ok |-> TRUE, items |-> RlpItems(b, h.start, Len(b))]
          ELSE [ok |-> FALSE, items |-> <<>>]

\* the byte string item i of the decoded list is
IsBytes(items, i, bs) == items[i].kind = "bytes" /\ items[i].val = bs
\* item i is the byte string of the number n
IsNumber(items, i, n) == items[i].kind = "bytes" /\ BytesToInt(items[i].val) = n
IsEmptyList(items, i) == items[i].kind = "list" /\ items[i].val = <<>>

SessionComplete(cfg) == cfg.t = "dict" /\ SessionFields \subseteq DOMAIN cfg.d

\* C7: sign_transaction returns a transaction only for a session
\* configuration that has all of signer, expiresAt, feeLimit, callPolicies and
\* transferPolicies; with any of them missing it returns no transaction; and
\* every transaction it returns carries a customSignature.
C7_SignsOnlyCompleteSession ==
  txpc \in {"signed", "sent"} =>
    /\ signed_tx.kind = "tx" => SessionComplete(session_config)
    /\ ~SessionComplete(session_config) => signed_tx.kind = "None"
    /\ signed_tx.kind = "tx" => Truthy(signed_tx.customSignature) /\ signed_tx.customSignature.h # <<>>

\* C8: the serialization of a signed transaction is the byte 0x71 followed by
\* the RLP encoding of one list of exactly 16 items: nonce,
\* maxPriorityFeePerGas, maxFeePerGas, gasLimit, to, value, data, chainId,
\* empty, empty, chainId, from, gasPerPubdataByteLimit, factoryDeps,
\* customSignature, paymasterParams.
C8_SerializedLayout ==
  (txpc = "sent" /\ send_arg.kind = "tx") =>
    /\ serialized_tx.ok
    /\ Head(serialized_tx.bytes) = 113
    /\ LET decoded == RlpDecodeList(Tail(serialized_tx.bytes))
           items == decoded.items
       IN /\ decoded.ok
          /\ Len(items) = 16
          /\ IsNumber(items, 1, send_arg.nonce)
          /\ IsNumber(items, 2, send_arg.maxPriorityFeePerGas)
          /\ IsNumber(items, 3, send_arg.maxFeePerGas)
          /\ IsNumber(items, 4, send_arg.gasLimit)
          /\ IsBytes(items, 5, FromHex(send_arg.to.h))
          /\ IsNumber(items, 6, send_arg.value)
          /\ IsBytes(items, 7, FromHex(send_arg.data.h))
          /\ IsNumber(items, 8, send_arg.chainId)
          /\ IsBytes(items, 9, <<>>)
          /\ IsBytes(items, 10, <<>>)
          /\ IsNumber(items, 11, send_arg.chainId)
          /\ items[8] = items[11]
          /\ IsBytes(items, 12, FromHex(send_arg.from.h))
          /\ IsNumber(items, 13, send_arg.gasPerPubdataByteLimit)
          /\ IsEmptyList(items, 14)
          /\ IsBytes(items, 15, FromHex(send_arg.customSignature.h))
          /\ IsEmptyList(items, 16)

\* a signed contract call with a value and a nonce above zero was serialized
C8_Witness ==
  /\ txpc = "sent"
  /\ send_arg.kind = "tx"
  /\ serialized_tx.ok
  /\ send_arg.nonce > 0
  /\ send_arg.value > 0
  /\ send_arg.data.h # <<>>
  /\ Len(serialized_tx.bytes) > 56

\* the scalar items of the serialized list, with the fields they hold
ScalarSlots ==
  << <<1, "nonce">>, <<2, "maxPriorityFeePerGas">>, <<3, "maxFeePerGas">>,
     <<4, "gasLimit">>, <<6, "value">>, <<8, "chainId">>,
     <<13, "gasPerPubdataByteLimit">> >>

\* bs is the minimal big-endian byte string of n: no leading zero byte, and
\* empty for zero
MinimalBigEndian(bs, n) ==
  /\ BytesToInt(bs) = n
  /\ bs # <<>> => bs[1] # 0

\* C9: in the list serialize_transaction builds, each of nonce,
\* maxPriorityFeePerGas, maxFeePerGas, gasLimit, value, chainId and
\* gasPerPubdataByteLimit is its minimal big-endian byte string, a scalar
\* equal to 0 being the empty byte string and never 0x00.
C9_ScalarsMinimalBigEndian ==
  (txpc = "serialized" /\ serialized_tx.ok) =>
    LET items == RlpDecodeList(Tail(serialized_tx.bytes)).items
    IN \A k \in 1..Len(ScalarSlots) :
         /\ items[ScalarSlots[k][1]].kind = "bytes"
         /\ MinimalBigEndian(items[ScalarSlots[k][1]].val, tx_params[ScalarSlots[k][2]])

\* C10: the transaction prepare_transaction returns has maxFeePerGas equal
\* to 2.5 times the base fee of the latest block, rounded down, and
\* maxPriorityFeePerGas equal to 0.
C10_MaxFeeFromBaseFee ==
  (txpc = "prepared" /\ tx_params.kind = "tx") =>
    /\ tx_params.maxFeePerGas = (5 * baseFeePerGas) \div 2
    /\ tx_params.maxPriorityFeePerGas = 0

RECURSIVE HexToInt(_)
\* the integer a sequence of hexadecimal digits stands for
HexToInt(h) ==
  IF h = <<>> THEN 0 ELSE 16 * HexToInt(SubSeq(h, 1, Len(h) - 1)) + h[Len(h)]

\* reading ABI data: the 32-byte word that starts at byte offset off of the
\* hex string h, and the bytes of h from byte offset off on
WordAt(h, off) == HexToInt(SubSeq(h, 2 * off + 1, 2 * off + 64))
BytesFrom(h, off, n) == SubSeq(h, 2 * off + 1, 2 * (off + n))

\* the validatorData inside a customSignature, the third of the parameters
\* (bytes, address, bytes): its head is the offset of length word and payload
ValidatorDataOf(sig) == BytesFrom(sig, WordAt(sig, 64) + 32, WordAt(sig, WordAt(sig, 64)))

\* C11: the validator data sign_transaction encodes is the session
\* configuration followed by an empty uint64[]: the array, the second
\* parameter, is the length word 0 with no element behind it.
C11_EmptyPeriodIdsPlaceholder ==
  signed_tx.kind = "tx" =>
    LET vd == ValidatorDataOf(signed_tx.customSignature.h)
        arrayAt == WordAt(vd, 32)
    IN /\ WordAt(vd, arrayAt) = 0
       /\ size(vd) = arrayAt + 32

(***************************************************************************)
(* agent_encoding.py: get_period_ids_for_transaction.  An address or a     *)
(* selector is the sequence of the characters after "0x": 0..15 for the    *)
(* characters 0-9 and a-f, 26..31 for A-F.                                 *)
(***************************************************************************)
\* class LimitType
Unlimited == 0
Lifetime == 1
Allowance == 2

\* str.lower()
lower(chars) == [i \in 1..Len(chars) |-> IF chars[i] >= 26 THEN chars[i] - 16 ELSE chars[i]]

\* len(s) of the string "0x" + chars
StrLen(chars) == 2 + Len(chars)

\* int(a / b) for b > 0: the quotient rounded toward zero
IntOfQuotient(a, b) == IF a >= 0 THEN a \div b ELSE -((-a) \div b)

\* mutant of get_id: Lifetime limits get a bucket as well
get_id_any_limit_type(limit, timestamp) ==
  IF limit.limitType # Unlimited /\ limit.period > 0
  THEN IntOfQuotient(timestamp, limit.period)
  ELSE 0

\* get_id(limit) of lines 27-30
get_id(limit, timestamp) ==
  IF limit.limitType = Allowance /\ limit.period > 0
  THEN IntOfQuotient(timestamp, limit.period)
  ELSE 0

\* "0x0000000000000000000000000000000000000000" and "0x00000000"
WILDCARD_TARGET == Zeros(40)
WILDCARD_SELECTOR == Zeros(8)

\* a selector argument: the string "0x" + chars (None is PyNone)
Str0x(chars) == [t |-> "str0x", chars |-> chars]

\* lines 36-38
is_transfer(selector) == selector.t = "none" \/ StrLen(selector.chars) < 10

\* the conditions of lines 45-48 and 63-66
TransferPolicyMatches(p, target) ==
  lower(p.target) = lower(target) \/ p.target = WILDCARD_TARGET

CallPolicyMatches(p, target, selector) ==
  /\ lower(p.target) = lower(target)
  /\ lower(p.selector) = lower(selector.chars) \/ p.selector = WILDCARD_SELECTOR

\* the policy the for loop breaks at: the first that matches, 0 for None
FirstIndex(S) == IF S = {} THEN 0 ELSE CHOOSE i \in S : \A j \in S : i <= j

PeriodIds(ids) == [raised |-> FALSE, ids |-> ids]

get_period_ids_for_transaction(cfg, target, selector, timestamp) ==
  LET period_ids == <<get_id(cfg.feeLimit, timestamp)>>
  IN IF is_transfer(selector)
     THEN LET k == FirstIndex({i \in 1..Len(cfg.transferPolicies) :
                                 TransferPolicyMatches(cfg.transferPolicies[i], target)})
          IN IF k # 0
             THEN PeriodIds(period_ids \o <<get_id(cfg.transferPolicies[k].valueLimit, timestamp)>>)
             ELSE PeriodIds(<<>>)
     ELSE LET k == FirstIndex({i \in 1..Len(cfg.callPolicies) :
                                 CallPolicyMatches(cfg.callPolicies[i], target, selector)})
          IN IF k # 0
             THEN LET policy == cfg.callPolicies[k]
                  IN PeriodIds(period_ids \o <<get_id(policy.valueLimit, timestamp)>>
                       \o [c \in 1..Len(policy.constraints) |->
                             get_id(policy.constraints[c].limit, timestamp)])
             ELSE PeriodIds(<<>>)

\* get_period_ids_for_transaction called on a session, a target, a selector
\* and a timestamp
MaxPolicies == 2

UsageLimit(limitType, period) == [limitType |-> limitType, limit |-> 100, period |-> period]
UsageLimits ==
  {UsageLimit(Unlimited, 0), UsageLimit(Lifetime, 3600), UsageLimit(Allowance, 3600),
   UsageLimit(Allowance, 0)}

\* 0xabab.., 0xABAB.., 0xcdcd..
TARGET_LOWER == Rep(<<10, 11>>, 40)
TARGET_UPPER == Rep(<<26, 27>>, 40)
TARGET_OTHER == Rep(<<12, 13>>, 40)
\* 0xa9059cbb, 0xA9059CBB, 0x095ea7b3
SELECTOR_LOWER == <<10, 9, 0, 5, 9, 12, 11, 11>>
SELECTOR_UPPER == <<26, 9, 0, 5, 9, 28, 27, 27>>
SELECTOR_OTHER == <<0, 9, 5, 14, 10, 7, 11, 3>>

\* the policies of a session: each stands in transferPolicies with its target
\* and value limit and in callPolicies with its selector and constraints too
PolicyChoices ==
  { [target |-> t, selector |-> sel, valueLimit |-> UsageLimit(Allowance, 3600),
     constraints |-> IF sel = SELECTOR_OTHER THEN <<[limit |-> UsageLimit(Allowance, 1800)]>>
                     ELSE <<>>] :
      t \in {TARGET_UPPER, TARGET_OTHER, WILDCARD_TARGET},
      sel \in {SELECTOR_UPPER, SELECTOR_OTHER, WILDCARD_SELECTOR} }

PolicyLists == UNION {[1..n -> PolicyChoices] : n \in 0..MaxPolicies}

PeriodSessions ==
  { [feeLimit |-> f,
     transferPolicies |-> [i \in 1..Len(ps) |->
        [target |-> ps[i].target, maxValuePerUse |-> 1000, valueLimit |-> ps[i].valueLimit]],
     callPolicies |-> ps] :
      f \in UsageLimits, ps \in PolicyLists }

PeriodTargets == {TARGET_LOWER, TARGET_OTHER}
PeriodSelectors == {PyNone, Str0x(<<>>), Str0x(SELECTOR_LOWER), Str0x(SELECTOR_OTHER)}
Timestamps == {0, 3600, 7199, 7200}

InitPeriod ==
  /\ FetchIdle
  /\ TxIdle
  /\ ProcIdle
  /\ call \in [session_config : PeriodSessions, target : PeriodTargets,
               selector : PeriodSelectors, timestamp : Timestamps]
  /\ ret = PyNone
  /\ fnpc = "call"

GetPeriodIds ==
  /\ fnpc = "call"
  /\ ret' = get_period_ids_for_transaction(call.session_config, call.target,
                                           call.selector, call.timestamp)
  /\ fnpc' = "returned"
  /\ UNCHANGED <<chainVars, fetchVars, txVars, procVars, call>>

NextPeriod == GetPeriodIds

SpecPeriod == InitPeriod /\ [][NextPeriod]_vars

(***************************************************************************)
(* Claims about get_period_ids_for_transaction                             *)
(***************************************************************************)
\* floor(timestamp / period) for an Allowance limit with a period, else 0
ExpectedId(limit, timestamp) ==
  IF limit.limitType = Allowance /\ limit.period > 0 THEN timestamp \div limit.period ELSE 0

\* the usage limits of a session: fee limit, value limits, constraint limits
LimitsOf(cfg) ==
  {cfg.feeLimit}
  \cup {cfg.transferPolicies[i].valueLimit : i \in 1..Len(cfg.transferPolicies)}
  \cup {cfg.callPolicies[i].valueLimit : i \in 1..Len(cfg.callPolicies)}
  \cup UNION {{cfg.callPolicies[i].constraints[c].limit :
                 c \in 1..Len(cfg.callPolicies[i].constraints)} :
              i \in 1..Len(cfg.callPolicies)}

\* C12: every ID is floor(timestamp / period) for an Allowance limit with
\* period > 0 and 0 for an Unlimited or Lifetime limit; with period 3600 the
\* timestamps 3600 and 7199 give 1 and 7200 gives 2; a later timestamp never
\* gives a smaller ID.
C12_PeriodIdIsFloor ==
  (fnpc = "returned" /\ ret.ids # <<>>) =>
    LET fee == call.session_config.feeLimit
        t == call.timestamp
    IN /\ ret.ids[1] = ExpectedId(fee, t)
       /\ fee.limitType \in {Unlimited, Lifetime} => ret.ids[1] = 0
       /\ \A k \in 2..Len(ret.ids) :
            \E limit \in LimitsOf(call.session_config) : ret.ids[k] = ExpectedId(limit, t)
       /\ (fee = UsageLimit(Allowance, 3600) /\ t \in {3600, 7199}) => ret.ids[1] = 1
       /\ (fee = UsageLimit(Allowance, 3600) /\ t = 7200) => ret.ids[1] = 2
       /\ \A later \in Timestamps : later >= t => get_id(fee, later) >= ret.ids[1]

\* the fee limit is an Allowance of period 3600 and the call is at 7199
C12_Witness ==
  /\ fnpc = "returned"
  /\ call.session_config.feeLimit = UsageLimit(Allowance, 3600)
  /\ call.timestamp = 7199
  /\ ret.ids # <<>>
  /\ ret.ids[1] = 1

\* the call names a selector: a string of "0x" and at least 8 characters
HasSelector(selector) == selector.t # "none" /\ Len(selector.chars) >= 8

SameIgnoringCase(a, b) == lower(a) = lower(b)

\* the matching rule: the policy's target is the target or the wildcard and,
\* for a call, its selector is the selector or the wildcard
PolicyApplies(p, target, selector) ==
  /\ SameIgnoringCase(p.target, target) \/ p.target = WILDCARD_TARGET
  /\ HasSelector(selector) =>
       SameIgnoringCase(p.selector, selector.chars) \/ p.selector = WILDCARD_SELECTOR

\* the transfer policies for a call without selector, else the call policies
PoliciesFor(cfg, selector) ==
  IF HasSelector(selector) THEN cfg.callPolicies ELSE cfg.transferPolicies

ApplyingPolicies(c) ==
  {i \in 1..Len(PoliciesFor(c.session_config, c.selector)) :
     PolicyApplies(PoliciesFor(c.session_config, c.selector)[i], c.target, c.selector)}

\* C13: the result is the empty list, and nothing is raised, whenever no
\* transfer policy (call without selector) or call policy (call with selector)
\* matches the target and selector; whenever one matches, the result is not
\* empty and starts with the ID of the fee limit.
C13_EmptyListIffNoPolicy ==
  fnpc = "returned" =>
    /\ ~ret.raised
    /\ IF ApplyingPolicies(call) = {}
       THEN ret.ids = <<>>
       ELSE ret.ids # <<>> /\ ret.ids[1] = ExpectedId(call.session_config.feeLimit, call.timestamp)

\* the IDs one policy contributes: its value limit, then its constraints
IdsOfPolicy(p, selector, t) ==
  <<ExpectedId(p.valueLimit, t)>>
  \o (IF HasSelector(selector)
      THEN [c \in 1..Len(p.constraints) |-> ExpectedId(p.constraints[c].limit, t)]
      ELSE <<>>)

\* C14: a policy is used exactly when its target is the target (ignoring
\* case) or the wildcard zero address and, for a call, its selector is the
\* selector (ignoring case) or the wildcard 0x00000000, for call policies and
\* transfer policies alike; one policy only contributes IDs.
C14_PolicyMatching ==
  fnpc = "returned" =>
    LET applying == ApplyingPolicies(call)
        policies == PoliciesFor(call.session_config, call.selector)
    IN /\ ret.ids # <<>> <=> applying # {}
       /\ ret.ids # <<>> =>
            \E i \in applying :
              Tail(ret.ids) = IdsOfPolicy(policies[i], call.selector, call.timestamp)

(***************************************************************************)
(* agent_encode_abi.py called on its own: encode_abi_params_values,        *)
(* number_to_hex and pad_hex                                               *)
(***************************************************************************)
MaxParams == 2

TypeOf(base, sz, dims) == Param(base, sz, dims, NoneV, <<>>)
ADDRESS_VALUE == HexV(Rep(<<10, 11>>, 40))
Ints(ns) == PyList([i \in 1..Len(ns) |-> PyInt(ns[i])])

\* a parameter with a value of its type
Typed(param, value) == [param |-> param, value |-> value]

\* values of the types the encoder names
WellTypedValues ==
  { Typed(TypeOf("uint", 256, <<>>), PyInt(5)),
    Typed(TypeOf("int", 8, <<>>), PyInt(-2)),
    Typed(TypeOf("address", -1, <<>>), ADDRESS_VALUE),
    Typed(TypeOf("bool", -1, <<>>), PyBool(TRUE)),
    Typed(TypeOf("bytes", 4, <<>>), HexV(<<1, 2, 3, 4, 5, 6, 7, 8>>)),
    Typed(TypeOf("bytes", -1, <<>>), HexV(<<1, 2, 3, 4>>)),
    Typed(TypeOf("bytes", -1, <<>>), HexV(<<>>)),
    Typed(TypeOf("string", -1, <<>>), PyStr(<<104, 105>>)),
    Typed(TypeOf("uint", 256, <<-1>>), Ints(<<1, 2>>)),
    Typed(TypeOf("uint", 256, <<-1>>), Ints(<<>>)),
    Typed(TypeOf("uint", 256, <<2>>), Ints(<<1, 2>>)),
    Typed(TypeOf("bytes", -1, <<2>>), PyList(<<HexV(<<1, 2>>), HexV(<<>>)>>)),
    Typed(Param("tuple", -1, <<>>, NoneV,
                <<TypeOf("uint", 256, <<>>), TypeOf("bytes", -1, <<>>)>>),
          PyList(<<PyInt(7), HexV(<<10, 11>>)>>)),
    Typed(Param("tuple", -1, <<>>, NoneV,
                <<TypeOf("uint", 256, <<>>), TypeOf("bool", -1, <<>>)>>),
          PyList(<<PyInt(7), PyBool(FALSE)>>)) }

\* values that do not fit their type, and type strings the encoder does not
\* name: "fixed", "function", "addressx", "uintx", "bytesfoo", "bytes32y"
OtherTypedValues ==
  { Typed(TypeOf("address", -1, <<>>), PyInt(5)),
    Typed(TypeOf("uint", 256, <<2>>), Ints(<<1>>)),
    Typed(TypeOf("fixed", -1, <<>>), PyInt(1)),
    Typed(TypeOf("function", -1, <<>>), ADDRESS_VALUE),
    Typed(JunkParam("address", -1, <<>>), ADDRESS_VALUE),
    Typed(JunkParam("uint", -1, <<>>), PyInt(1)),
    Typed(JunkParam("bytes", -1, <<>>), HexV(<<1, 2>>)),
    Typed(JunkParam("bytes", 32, <<>>), HexV(Rep(<<1>>, 64))) }

TypedValues == WellTypedValues \cup OtherTypedValues

EncodeCalls ==
  { [fn |-> "encode_abi_params_values",
     params |-> [i \in 1..Len(tv) |-> tv[i].param],
     values |-> [i \in 1..Len(tv) |-> tv[i].value]] :
      tv \in UNION {[1..n -> TypedValues] : n \in 1..MaxParams} }

NumberInputs == {-300, -129, -128, -1, 0, 1, 127, 128, 255, 256, 65535, 65536}
NumberSizes == {1, 2, 32}
NumberCalls ==
  { [fn |-> "number_to_hex", number |-> n, size |-> sz, signed |-> sg] :
      n \in NumberInputs, sz \in NumberSizes, sg \in BOOLEAN }

PadInputs ==
  { <<>>, <<1>>, <<1, 2>>, <<1, 2, 3>>, <<0, 0, 1, 2>>, <<1, 2, 3, 4, 5>>,
    Rep(<<10>>, 63), Rep(<<10>>, 64), Rep(<<11>>, 65), Rep(<<12>>, 66) }
PadSizes == {0, 1, 2, 32}
PadCalls ==
  { [fn |-> "pad_hex", hex_value |-> x, size |-> sz] : x \in PadInputs, sz \in PadSizes }

InitAbi ==
  /\ FetchIdle
  /\ TxIdle
  /\ ProcIdle
  /\ call \in EncodeCalls \cup NumberCalls \cup PadCalls
  /\ ret = PyNone
  /\ fnpc = "call"

\* encode_abi_params_values: prepare_params, then encode_params
EncodeAbi ==
  /\ fnpc = "call"
  /\ call.fn = "encode_abi_params_values"
  /\ ret' = [ok |-> encode_abi_params_values(call.params, call.values).ok,
             prepared |-> prepare_params(call.params, call.values),
             encoded |-> encode_abi_params_values(call.params, call.values).encoded]
  /\ fnpc' = "returned"
  /\ UNCHANGED <<chainVars, fetchVars, txVars, procVars, call>>

NumberToHex ==
  /\ fnpc = "call"
  /\ call.fn = "number_to_hex"
  /\ ret' = IF NumberOk(PyInt(call.number), call.size, call.signed)
            THEN [raised |-> FALSE,
                  hex |-> number_to_hex(PyInt(call.number), call.size, call.signed)]
            ELSE [raised |-> TRUE, hex |-> <<>>]
  /\ fnpc' = "returned"
  /\ UNCHANGED <<chainVars, fetchVars, txVars, procVars, call>>

\* pad_hex applied to a value, and applied again to what it returned
PadHexTwice ==
  /\ fnpc = "call"
  /\ call.fn = "pad_hex"
  /\ ret' = [once |-> pad_hex(call.hex_value, "left", call.size),
             twice |-> pad_hex(pad_hex(call.hex_value, "left", call.size), "left", call.size)]
  /\ fnpc' = "returned"
  /\ UNCHANGED <<chainVars, fetchVars, txVars, procVars, call>>

NextAbi ==
  \/ EncodeAbi
  \/ NumberToHex
  \/ PadHexTwice

SpecAbi == InitAbi /\ [][NextAbi]_vars

(***************************************************************************)
(* Claims about the ABI encoder                                            *)
(***************************************************************************)
EncodeReturned == fnpc = "returned" /\ call.fn = "encode_abi_params_values"

\* the bytes a parameter takes among the heads
HeadSize(p) == IF p.dynamic THEN 32 ELSE size(p.encoded)

RECURSIVE SumOver(_, _)
SumOver(f, n) == IF n = 0 THEN 0 ELSE SumOver(f, n - 1) + f[n]

HeadSizes(ps) == [i \in 1..Len(ps) |-> HeadSize(ps[i])]
TailSizes(ps) == [i \in 1..Len(ps) |-> IF ps[i].dynamic THEN size(ps[i].encoded) ELSE 0]

\* encoded is the layout of the prepared parameters ps
IsHeadTailLayout(encoded, ps) ==
  LET heads == SumOver(HeadSizes(ps), Len(ps))
  IN /\ size(encoded) = heads + SumOver(TailSizes(ps), Len(ps))
     /\ \A i \in 1..Len(ps) :
          LET at == SumOver(HeadSizes(ps), i - 1)
              payloadAt == heads + SumOver(TailSizes(ps), i - 1)
          IN IF ps[i].dynamic
             THEN /\ BytesFrom(encoded, at, 32) = Word(payloadAt)
                  /\ BytesFrom(encoded, payloadAt, size(ps[i].encoded)) = ps[i].encoded
             ELSE BytesFrom(encoded, at, size(ps[i].encoded)) = ps[i].encoded

\* C15: encode_params lays the heads out in parameter order and the payloads
\* of the dynamic parameters behind them in the same order; a static parameter
\* is its own head, and the head of a dynamic parameter is the byte offset of
\* its payload: the total size of the heads plus the sizes of the payloads of
\* the dynamic parameters before it.
C15_HeadsThenPayloads ==
  (EncodeReturned /\ ret.ok) => IsHeadTailLayout(ret.encoded, ret.prepared)

\* two dynamic parameters were encoded, the first with a payload behind its length word
C15_Witness ==
  /\ EncodeReturned
  /\ ret.ok
  /\ Len(ret.prepared) >= 2
  /\ ret.prepared[1].dynamic
  /\ ret.prepared[2].dynamic
  /\ size(ret.prepared[1].encoded) > 32

\* the type strings prepare_param names: address, bool, string, tuple,
\* int<N>, uint<N>, bytes<N>, bytes, and T[] / T[K] of such a type
RECURSIVE InGrammar(_)
InGrammar(param) ==
  /\ ~param.junk
  /\ \/ param.base \in {"address", "bool", "string"} /\ param.size = -1
     \/ param.base \in {"int", "uint"} /\ param.size > 0
     \/ param.base = "bytes" /\ (param.size = -1 \/ param.size > 0)
     \/ /\ param.base = "tuple"
        /\ param.size = -1
        /\ \A i \in 1..Len(param.components) : InGrammar(param.components[i])

\* T of T[] and of T[K]
ElementType(param) ==
  [param EXCEPT !.dims = SubSeq(param.dims, 1, Len(param.dims) - 1), !.name = NoneV]

IsArray(param) == Len(param.dims) > 0
IsDynamicArray(param) == IsArray(param) /\ param.dims[Len(param.dims)] = -1
IsFixedArray(param) == IsArray(param) /\ param.dims[Len(param.dims)] # -1
IsTuple(param) == ~IsArray(param) /\ param.base = "tuple"

RECURSIVE IsDynamicType(_)
\* bytes, string, T[], or a tuple / T[K] with a dynamic component / element
IsDynamicType(param) ==
  IF IsDynamicArray(param) THEN TRUE
  ELSE IF IsFixedArray(param)
       THEN param.dims[Len(param.dims)] > 0 /\ IsDynamicType(ElementType(param))
  ELSE IF param.base = "tuple"
       THEN \E i \in 1..Len(param.components) : IsDynamicType(param.components[i])
  ELSE (param.base = "bytes" /\ param.size = -1) \/ param.base = "string"

\* the prepared elements of an array value, the prepared components of a tuple value
PreparedParts(param, value) ==
  [j \in 1..Len(value.items) |->
     prepare_param(IF IsArray(param) THEN ElementType(param) ELSE param.components[j],
                   value.items[j])]

\* the payload of bytes and string values in bytes
ByteLength(value) == IF value.t = "hex" THEN size(value.h) ELSE Len(Utf8(value))

\* the encoding begins with the length word n and holds body bytes behind it
HasLengthWord(encoded, n, body) ==
  /\ BytesFrom(encoded, 0, 32) = Word(n)
  /\ size(encoded) = 32 + body

PartsSize(ps) == SumOver(HeadSizes(ps), Len(ps)) + SumOver(TailSizes(ps), Len(ps))

\* C16 for one parameter prepared as p from value
DynamicAndLengthWord(param, value, p) ==
  /\ p.dynamic = IsDynamicType(param)
  /\ IsDynamicArray(param) =>
       /\ HasLengthWord(p.encoded, Len(value.items), PartsSize(PreparedParts(param, value)))
       /\ IsHeadTailLayout(BytesFrom(p.encoded, 32, size(p.encoded) - 32),
                           PreparedParts(param, value))
  /\ (~IsArray(param) /\ IsDynamicType(param) /\ ~IsTuple(param)) =>
       HasLengthWord(p.encoded, ByteLength(value), ((ByteLength(value) + 31) \div 32) * 32)
  /\ (IsFixedArray(param) \/ IsTuple(param)) =>
       IsHeadTailLayout(p.encoded, PreparedParts(param, value))

\* C16: for a type of the grammar, prepare_param marks the value dynamic
\* exactly when the type is bytes, string or T[], or a tuple or T[K] with a
\* dynamic component or element; the encodings of T[], bytes and string begin
\* with the length word, and the encodings of tuples and of T[K] are the
\* encodings of their parts with no length word before them.
C16_DynamicFlagAndLengthWord ==
  EncodeReturned =>
    \A i \in 1..Len(call.params) :
      (InGrammar(call.params[i]) /\ ret.prepared[i].ok) =>
        DynamicAndLengthWord(call.params[i], call.values[i], ret.prepared[i])

\* a fixed array with dynamic elements and a tuple with a dynamic component
\* were prepared in one call
C16_Witness ==
  /\ EncodeReturned
  /\ ret.ok
  /\ Len(call.params) >= 2
  /\ IsFixedArray(call.params[1])
  /\ ret.prepared[1].dynamic
  /\ IsTuple(call.params[2])
  /\ ret.prepared[2].dynamic

\* C17: encode_abi_params_values raises, and returns no bytes, whenever the
\* type string of a parameter is not one of address, bool, int<N>, uint<N>,
\* bytes<N>, bytes, string, tuple, or T[] / T[K] of such a type.
C17_UnsupportedTypeRaises ==
  (EncodeReturned /\ \E i \in 1..Len(call.params) : ~InGrammar(call.params[i]))
    => ~ret.ok

(***************************************************************************)
(* Claims about number_to_hex and pad_hex                                  *)
(***************************************************************************)
NumberReturned == fnpc = "returned" /\ call.fn = "number_to_hex"

\* the digits h, read as an unsigned number, are n mod 2^(8 * sz); for sz >= 4
\* the modulus is beyond the integers of the model and the digits are read in
\* two parts: the low seven digits and the sign extension before them
IsResidue(h, n, sz) ==
  IF sz < 4 THEN HexToInt(h) = n % (2 ^ (8 * sz))
  ELSE /\ \A i \in 1..(Len(h) - 7) : h[i] = (IF n < 0 THEN 15 ELSE 0)
       /\ HexToInt(SubSeq(h, Len(h) - 6, Len(h))) = (IF n < 0 THEN 16 ^ 7 + n ELSE n)

\* C18: number_to_hex(n, size, signed) returns exactly size bytes, 2 * size
\* hex digits, whose unsigned value is n mod 2^(8 * size), for every integer
\* n, size and signed flag.
C18_ExactlySizeBytesMasked ==
  NumberReturned =>
    /\ ~ret.raised
    /\ Len(ret.hex) = 2 * call.size
    /\ IsResidue(ret.hex, call.number, call.size)

PadReturned == fnpc = "returned" /\ call.fn = "pad_hex"

\* C20: padding on the left is idempotent, pad_hex(pad_hex(x, left, n), left, n)
\* is pad_hex(x, left, n), and a value of n bytes or more comes back unchanged.
C20_PadLeftIdempotent ==
  PadReturned =>
    /\ ret.twice = ret.once
    /\ size(call.hex_value) >= call.size => ret.once = call.hex_value

\* a value with an odd number of digits was padded
C20_Witness ==
  /\ PadReturned
  /\ Len(call.hex_value) % 2 = 1
  /\ ret.once # call.hex_value
  /\ Len(ret.once) = 2 * call.size

(***************************************************************************)
(* agent_sign.py: encode_type.  A str is the sequence of its code points;  *)
(* types_dict is the sequence of its (key, value) pairs in insertion order *)
(***************************************************************************)
Entry(key, fields) == [key |-> key, fields |-> fields]
Field(type, name) == [type |-> type, name |-> name]

Keys(types_dict) == {types_dict[i].key : i \in 1..Len(types_dict)}

\* types_dict[key]
FieldsOf(types_dict, key) ==
  types_dict[CHOOSE i \in 1..Len(types_dict) : types_dict[i].key = key].fields

RECURSIVE BeforeBracket(_)
\* type.split("[")[0]
BeforeBracket(type) ==
  IF type = <<>> \/ Head(type) = 91 THEN <<>> ELSE <<Head(type)>> \o BeforeBracket(Tail(type))

\* find_type_deps that looks at the fields of the primary type only
find_type_deps_one_level(primary, types_dict, results) ==
  IF primary \in results \/ primary \notin Keys(types_dict) THEN results
  ELSE results \cup {primary}
       \cup ({ BeforeBracket(FieldsOf(types_dict, primary)[i].type) :
                 i \in 1..Len(FieldsOf(types_dict, primary)) } \cap Keys(types_dict))

RECURSIVE find_type_deps(_, _, _)
RECURSIVE visit_fields(_, _, _)

\* the loop over types_dict[primary]; results is the one set all calls add to
visit_fields(fields, types_dict, results) ==
  IF fields = <<>> THEN results
  ELSE visit_fields(Tail(fields), types_dict,
                    find_type_deps(BeforeBracket(Head(fields).type), types_dict, results))

find_type_deps(primary, types_dict, results) ==
  IF primary \in results \/ primary \notin Keys(types_dict) THEN results
  ELSE visit_fields(FieldsOf(types_dict, primary), types_dict, results \cup {primary})

RECURSIVE StrLess(_, _)
\* a < b for two str: by code point, a proper prefix first
StrLess(a, b) ==
  IF b = <<>> THEN FALSE
  ELSE IF a = <<>> THEN TRUE
  ELSE IF Head(a) # Head(b) THEN Head(a) < Head(b)
  ELSE StrLess(Tail(a), Tail(b))

RECURSIVE sorted(_)
\* sorted(list(deps))
sorted(names) ==
  IF names = {} THEN <<>>
  ELSE LET least == CHOOSE a \in names : \A b \in names \ {a} : StrLess(a, b)
       IN <<least>> \o sorted(names \ {least})

RECURSIVE Join(_)
\* ",".join(f"{f['type']} {f['name']}" for f in fields)
Join(fields) ==
  IF fields = <<>> THEN <<>>
  ELSE Head(fields).type \o <<32>> \o Head(fields).name
       \o (IF Len(fields) > 1 THEN <<44>> ELSE <<>>) \o Join(Tail(fields))

\* f"{dep}({fields})"
Signature(dep, types_dict) == dep \o <<40>> \o Join(FieldsOf(types_dict, dep)) \o <<41>>

RECURSIVE Signatures(_, _)
Signatures(deps, types_dict) ==
  IF deps = <<>> THEN <<>>
  ELSE Signature(Head(deps), types_dict) \o Signatures(Tail(deps), types_dict)

\* deps.remove(primary_type) raises KeyError when the primary type is no key
EncodeTypeRaises(primary_type, types_dict) ==
  primary_type \notin find_type_deps(primary_type, types_dict, {})

encode_type(primary_type, types_dict) ==
  Signatures(<<primary_type>>
             \o sorted(find_type_deps(primary_type, types_dict, {}) \ {primary_type}),
             types_dict)

\* the names "A", "AB", "a" of struct types, "C" of no entry, and "uint256"
TYPE_A == <<65>>
TYPE_AB == <<65, 66>>
TYPE_a == <<97>>
TYPE_C == <<67>>
UINT256 == <<117, 105, 110, 116, 50, 53, 54>>
ArrayOf(type) == type \o <<91, 93>>
NAME_x == <<120>>
NAME_y == <<121>>

StructNames == <<TYPE_A, TYPE_AB, TYPE_a>>

FieldLists ==
  { <<Field(UINT256, NAME_x)>>,
    <<Field(TYPE_A, NAME_x)>>,
    <<Field(ArrayOf(TYPE_AB), NAME_x)>>,
    <<Field(TYPE_a, NAME_x)>>,
    <<Field(TYPE_C, NAME_x)>>,
    <<Field(TYPE_AB, NAME_x), Field(TYPE_a, NAME_y)>>,
    <<Field(TYPE_a, NAME_x), Field(ArrayOf(TYPE_AB), NAME_y)>>,
    <<Field(TYPE_a, NAME_x), Field(TYPE_a, NAME_y)>>,
    <<Field(UINT256, NAME_x), Field(TYPE_A, NAME_y)>> }

\* the orders in which the entries can have been inserted
InsertionOrders ==
  { o \in [1..Len(StructNames) -> 1..Len(StructNames)] :
      \A i, j \in 1..Len(StructNames) : o[i] = o[j] => i = j }

TypeCalls ==
  { [fn |-> "encode_type",
     primary_type |-> primary,
     types |-> [i \in 1..Len(StructNames) |-> Entry(StructNames[i], fields[i])],
     reordered |-> [i \in 1..Len(StructNames) |-> Entry(StructNames[o[i]], fields[o[i]])]] :
      primary \in {TYPE_A, TYPE_AB, TYPE_a, TYPE_C},
      fields \in [1..Len(StructNames) -> FieldLists],
      o \in InsertionOrders }

InitType ==
  /\ FetchIdle
  /\ TxIdle
  /\ ProcIdle
  /\ call \in TypeCalls
  /\ ret = PyNone
  /\ fnpc = "call"

\* encode_type on the type map, and on the same entries inserted in another order
EncodeType ==
  /\ fnpc = "call"
  /\ call.fn = "encode_type"
  /\ ret' = IF EncodeTypeRaises(call.primary_type, call.reordered)
            THEN [raised |-> TRUE, encoded |-> <<>>, first_order |-> <<>>]
            ELSE [raised |-> FALSE,
                  encoded |-> encode_type(call.primary_type, call.reordered),
                  first_order |-> encode_type(call.primary_type, call.types)]
  /\ fnpc' = "returned"
  /\ UNCHANGED <<chainVars, fetchVars, txVars, procVars, call>>

NextType == EncodeType

SpecType == InitType /\ [][NextType]_vars

(***************************************************************************)
(* Claim about encode_type                                                 *)
(***************************************************************************)
TypeReturned == fnpc = "returned" /\ call.fn = "encode_type"

\* the struct types a field of one of the types in names refers to
ReferredBy(names, types_dict) ==
  { k \in Keys(types_dict) :
      \E n \in names \cap Keys(types_dict) :
        \E i \in 1..Len(FieldsOf(types_dict, n)) :
          BeforeBracket(FieldsOf(types_dict, n)[i].type) = k }

RECURSIVE Closure(_, _)
Closure(names, types_dict) ==
  IF ReferredBy(names, types_dict) \subseteq names THEN names
  ELSE Closure(names \cup ReferredBy(names, types_dict), types_dict)

\* the struct types reachable from the primary type, the primary type left out
Reachable(primary_type, types_dict) == Closure({primary_type}, types_dict) \ {primary_type}

\* the elements of names, each once, in lexicographic order
InLexicographicOrder(names) ==
  CHOOSE q \in [1..Cardinality(names) -> names] :
    \A i, j \in 1..Cardinality(names) : i < j => StrLess(q[i], q[j])

\* C19: the output of encode_type is the same for every insertion order of
\* the entries of the type map: the signature of the primary type, then the
\* signature of every struct type reachable from it, each once, the primary
\* type not again, in lexicographic order of the type names.
C19_EncodeTypeOrderIndependent ==
  (TypeReturned /\ ~ret.raised) =>
    /\ ret.encoded = ret.first_order
    /\ ret.encoded =
         Signature(call.primary_type, call.types)
         \o Signatures(InLexicographicOrder(Reachable(call.primary_type, call.types)),
                       call.types)

\* entries inserted in another order, two struct types reached, one of them
\* through another and the primary type reached again from it
C19_Witness ==
  /\ TypeReturned
  /\ ~ret.raised
  /\ call.reordered # call.types
  /\ call.primary_type = TYPE_a
  /\ Cardinality(Reachable(call.primary_type, call.types)) = 2
  /\ TYPE_AB \notin ReferredBy({TYPE_a}, call.types)
  /\ TYPE_a \in ReferredBy({TYPE_A, TYPE_AB}, call.types)

(***************************************************************************)
(* agent_transaction.py: wait_for_transaction                              *)
(***************************************************************************)
MaxTimeout == 3

Timeouts == -1..MaxTimeout
StartTimes == {0, 7}
\* seconds a call of get_transaction_receipt takes
RpcSeconds == {0, 1}
RECEIPT == [t |-> "receipt", status |-> 1]

\* what get_transaction_receipt can do: return the receipt, return None
\* (providers that report an unknown transaction so), or raise
PollOutcomes(isMined) == IF isMined THEN {"receipt", "error"} ELSE {"none", "error"}

\* the poll ends the wait whatever it returned without raising
ReturnedAnything(outcome) == outcome # "error"

\* if receipt:
ReceiptFound(outcome) == outcome = "receipt"

notWaitVars == <<chainVars, fetchVars, txVars, fnVars, flowVars, pipeVars, threadVars>>

InitWait ==
  /\ FetchIdle
  /\ TxIdle
  /\ FnIdle
  /\ FlowIdle
  /\ PipeIdle
  /\ ThreadIdle
  /\ clock \in StartTimes
  /\ mined \in BOOLEAN
  /\ timeout \in Timeouts
  /\ start_time = 0
  /\ wpc = "call"
  /\ polls = <<>>
  /\ receipt = PyNone

\* start_time = time.time()
WaitStart ==
  /\ wpc = "call"
  /\ start_time' = clock
  /\ wpc' = "check"
  /\ UNCHANGED <<notWaitVars, clock, mined, timeout, polls, receipt>>

\* while time.time() - start_time < timeout; after the loop: return None
WaitCheck ==
  /\ wpc = "check"
  /\ wpc' = IF clock - start_time < timeout THEN "poll" ELSE "done"
  /\ UNCHANGED <<notWaitVars, clock, mined, timeout, start_time, polls, receipt>>

\* receipt = w3.eth.get_transaction_receipt(tx_hash) inside try / except: pass
WaitPoll ==
  /\ wpc = "poll"
  /\ \E outcome \in PollOutcomes(mined), seconds \in RpcSeconds :
       /\ clock' = clock + seconds
       /\ polls' = Append(polls, [at |-> clock, until |-> clock + seconds,
                                  outcome |-> outcome])
       /\ IF ReceiptFound(outcome)
          THEN receipt' = (IF outcome = "receipt" THEN RECEIPT ELSE PyNone) /\ wpc' = "done"
          ELSE receipt' = receipt /\ wpc' = "sleep"
  /\ UNCHANGED <<notWaitVars, mined, timeout, start_time>>

\* time.sleep(1)
WaitSleep ==
  /\ wpc = "sleep"
  /\ clock' = clock + 1
  /\ wpc' = "check"
  /\ UNCHANGED <<notWaitVars, mined, timeout, start_time, polls, receipt>>

\* the chain mines the transaction
Mine ==
  /\ wpc \in {"call", "check", "poll", "sleep"}
  /\ ~mined
  /\ mined' = TRUE
  /\ UNCHANGED <<notWaitVars, clock, timeout, start_time, wpc, polls, receipt>>

WaitStep ==
  \/ WaitStart
  \/ WaitCheck
  \/ WaitPoll
  \/ WaitSleep

NextWait ==
  \/ WaitStep
  \/ Mine

\* the thread that runs wait_for_transaction keeps running
SpecWait == InitWait /\ [][NextWait]_vars /\ WF_vars(WaitStep)

WaitReturned == wpc = "done"

NoReceiptIn(ps) == \A i \in 1..Len(ps) : ps[i].outcome # "receipt"

\* what C21 says of a state
WaitContract ==
  /\ \A i \in 1..Len(polls) : polls[i].at - start_time < timeout
  /\ \A i \in 1..(Len(polls) - 1) : polls[i + 1].at = polls[i].until + 1
  /\ (WaitReturned /\ receipt # PyNone) =>
       /\ polls # <<>>
       /\ polls[Len(polls)].outcome = "receipt"
       /\ receipt = RECEIPT
       /\ NoReceiptIn(SubSeq(polls, 1, Len(polls) - 1))
  /\ (WaitReturned /\ receipt = PyNone) =>
       /\ NoReceiptIn(polls)
       /\ clock - start_time >= timeout
  /\ (~WaitReturned /\ wpc # "call") => (NoReceiptIn(polls) /\ receipt = PyNone)

\* C21: wait_for_transaction polls one second after the previous poll ended,
\* returns the first receipt a poll observes, returns None when no poll has
\* observed one and the timeout has elapsed, takes a poll that raised (or
\* returned None) for "no receipt yet", and always returns.
C21_PollsUntilReceiptOrTimeout == [](WaitContract) /\ <>WaitReturned

\* the second poll raised, the third returned the receipt after the
\* transaction was mined during the wait
C21_Witness ==
  /\ WaitReturned
  /\ Len(polls) = 3
  /\ polls[1].outcome = "none"
  /\ polls[2].outcome = "error"
  /\ receipt = RECEIPT

(***************************************************************************)
(* Claims about the fallback search of fetch_session_config                *)
(***************************************************************************)
\* the account-filtered query gave no log and the unfiltered search has run
\* with no query raising (the current block is beyond the recent window)
FallbackSucceeded ==
  /\ pc \in {"process", "done"}
  /\ scan_from_block > 0
  /\ ~scanRaised

\* a session of the account that is neither expired nor revoked on the chain
\* and has the signer asked for
ActiveOnChain(l) ==
  /\ Lower(l.account) = Lower(display_address)
  /\ WellFormed(l.sessionSpec)
  /\ l.sessionSpec.expiresAt.val > NowTs
  /\ l.sessionHash \notin chainRevoked
  /\ SignerMatches(l)

\* C23: when the account-filtered query gave nothing and the unfiltered
\* queries succeed, the fallback search finds every SessionCreated log of the
\* account at any block of [0, current block], so an unexpired, unrevoked
\* session of the account anywhere in history is returned instead of None.
C23_FallbackFindsWholeHistory ==
  FallbackSucceeded =>
    /\ \A i \in 1..Len(chain) :
         Lower(chain[i].account) = Lower(display_address) => chain[i] \in CreatedSet
    /\ (Done /\ \E i \in 1..Len(chain) : ActiveOnChain(chain[i])) => result # NoneSession

\* C24: the chunked scan queries its block ranges one at a time in ascending
\* order and makes no further chunk query once a chunk has yielded a log.
C24_ScanStopsAtFirstLog ==
  /\ \A i \in 1..(Len(chunkQueries) - 1) : chunkQueries[i][2] < chunkQueries[i + 1][1]
  /\ pc = "chunk" => Len(all_created_logs) = 0

(***************************************************************************)
(* The fallback search of fetch_session_config at any block height         *)
(***************************************************************************)
BlockHeights ==
  {0, 1, RECENT_WINDOW, RECENT_WINDOW + 1, CHUNK_SIZE \div 2,
   CHUNK_SIZE + RECENT_WINDOW, CHUNK_SIZE + RECENT_WINDOW + 1,
   CHUNK_SIZE + RECENT_WINDOW + 2, 2 * CHUNK_SIZE + RECENT_WINDOW + 1, CurrentBlock}

\* blocks at which the one log of the chain can sit
LogBlocks(height) ==
  {b \in {0, CHUNK_SIZE, CHUNK_SIZE + 1, 2 * CHUNK_SIZE + 1, 2 * CHUNK_SIZE + 2,
          height - RECENT_WINDOW - 1, height - RECENT_WINDOW, height} : b >= 0 /\ b <= height}

ACTIVE_LOG_CONTENT ==
  [account |-> ACCOUNT_CS, sessionSpec |-> SpecOf("dict", AllFields, "0xAb", IntV(NowTs + 3600))]

\* the account-filtered query has returned no log
InitScan ==
  /\ block_number \in BlockHeights
  /\ chain \in {<<>>} \cup {<<MkLog(ACTIVE_LOG_CONTENT, 1, b)>> : b \in LogBlocks(block_number)}
  /\ chainRevoked = {}
  /\ signer_pub_key = NoneV
  /\ pc = "recent"
  /\ created_logs = <<>>
  /\ revoked_logs = {}
  /\ all_created_logs = <<>>
  /\ scan_from_block = 0
  /\ from_block = 0
  /\ to_block = 0
  /\ chunkQueries = <<>>
  /\ filterRaised = FALSE
  /\ scanRaised = FALSE
  /\ result = NoneSession
  /\ returned = NoEntry
  /\ raised = FALSE
  /\ TxIdle
  /\ FnIdle
  /\ ProcIdle

NextScan ==
  \/ FallbackRecent
  \/ FallbackRaises
  \/ ChunkScan
  \/ ChunkScanRaises
  \/ FilterFallback
  \/ ProcessLogs

\* the call keeps running
SpecScan == InitScan /\ [][NextScan]_vars /\ WF_vars(NextScan)

\* block b is in a range a chunk query asked for, or in the recent window
Covered(b) ==
  \/ b >= Max(0, block_number - RECENT_WINDOW) /\ b <= block_number
  \/ \E i \in 1..Len(chunkQueries) : chunkQueries[i][1] <= b /\ b <= chunkQueries[i][2]

ScanLoopLeft == pc \in {"filter", "process", "done"} /\ chunkQueries # <<>>

\* what C26 says of a state
ScanContract ==
  /\ \A i \in 1..Len(chunkQueries) : chunkQueries[i][1] <= chunkQueries[i][2]
  /\ \A i \in 1..(Len(chunkQueries) - 1) : chunkQueries[i][2] < chunkQueries[i + 1][1]
  /\ ScanLoopLeft => \A b \in 0..block_number : Covered(b)

\* C26: at every block height the chunked scan ends; the ranges it queried
\* are ascending and pairwise disjoint and cover, with the recent window
\* [max(0, current - 1000), current], every block of [0, current]; a chunk
\* whose query raised is left out and the scan goes on with the next chunk.
C26_ScanTerminatesAndCovers == [](ScanContract) /\ <>(pc = "done")

\* the query of the first chunk raised, its log was not collected, and the
\* scan went on to the last chunk
C26_Witness ==
  /\ pc = "done"
  /\ scanRaised
  /\ Len(chunkQueries) = 3
  /\ chain # <<>>
  /\ chain[1].blockNumber <= chunkQueries[1][2]
  /\ all_created_logs = <<>>

(***************************************************************************)
(* agent_sign.py: to_hex_str and serialize_transaction, on the dict that   *)
(* sign_transaction returns (it has no key "gas", "gasPerPubdata" or       *)
(* "paymaster")                                                            *)
(***************************************************************************)
\* tx.get("gas", 0) and tx.get("gasPerPubdata", 50000) of a dict without the key
DEFAULT_GAS == 0
DEFAULT_GAS_PER_PUBDATA == 50000

\* to_hex_str(n)[2:] of an int, with the characters that are no hexadecimal
\* digit removed as the inner to_bytes removes them: the digits of |n|
to_hex_str_digits(n) == HexDigits(IF n < 0 THEN -n ELSE n)

\* to_bytes(to_hex_str(n)[2:]): the digits are a str, "0" becomes b"\x00"
agent_sign_scalar(n) == to_bytes(to_hex_str_digits(n))

\* to_bytes of an optional "0x.." string: b"" for None, "" and "0x"
agent_sign_hex(x) == IF Truthy(x) THEN to_bytes(x.h) ELSE <<>>

\* rlp_fields of agent_sign.serialize_transaction
agent_sign_rlp_fields(tx) ==
  << RlpBytes(agent_sign_scalar(tx.nonce)),
     RlpBytes(agent_sign_scalar(tx.maxPriorityFeePerGas)),
     RlpBytes(agent_sign_scalar(tx.maxFeePerGas)),
     RlpBytes(agent_sign_scalar(DEFAULT_GAS)),
     RlpBytes(agent_sign_hex(tx.to)),
     RlpBytes(agent_sign_scalar(tx.value)),
     RlpBytes(agent_sign_hex(tx.data)),
     RlpBytes(agent_sign_scalar(tx.chainId)),
     RlpBytes(<<>>),
     RlpBytes(<<>>),
     RlpBytes(agent_sign_scalar(tx.chainId)),
     RlpBytes(agent_sign_hex(tx.from)),
     RlpBytes(agent_sign_scalar(DEFAULT_GAS_PER_PUBDATA)),
     RlpList(tx.factoryDeps),
     RlpBytes(agent_sign_hex(tx.customSignature)),
     RlpList(<<>>) >>

\* agent_sign.serialize_transaction: "0x71" + rlp_encode(rlp_fields).hex()
agent_sign_serialize_transaction(tx) ==
  [ok |-> TRUE, bytes |-> <<TX_TYPE>> \o RlpEncode(RlpList(agent_sign_rlp_fields(tx)))]

\* C27: for every transaction sign_transaction returns, the serializer of
\* agent_sign.py and the serializer of agent_transaction.py give the same
\* bytes, and their 16 slots agree one by one.
C27_SerializersAgree ==
  signed_tx.kind = "tx" =>
    /\ \A i \in 1..16 : agent_sign_rlp_fields(signed_tx)[i] = SerializedFields(signed_tx)[i]
    /\ agent_sign_serialize_transaction(signed_tx) = serialize_transaction(signed_tx)

(***************************************************************************)
(* The entry points: agent_main.main, agent_send.main, agent_swap.main,    *)
(* do_execute_buy and do_execute_sell of agent_trading.py                  *)
(***************************************************************************)
EntryPoints ==
  {"agent_main.main", "agent_send.main", "agent_swap.main",
   "do_execute_buy", "do_execute_sell"}

\* zkCRO -> VUSD and VUSD -> zkCRO
SELL_STEPS == <<"deposit_zkCRO", "approve_WZKCRO", "swap_WZKCRO_to_VUSD">>
BUY_STEPS == <<"approve_VUSD", "swap_VUSD_to_WZKCRO", "unwrap_WZKCRO">>

\* the step functions an entry point calls; agent_main.main is its own
\* pipeline; agent_swap.main takes the direction the user typed
StepsOf(entry) ==
  CASE entry = "agent_main.main" -> {<<"main">>}
    [] entry = "agent_send.main" -> {<<"send_one_wei">>}
    [] entry = "agent_swap.main" -> {SELL_STEPS, BUY_STEPS}
    [] entry = "do_execute_buy" -> {BUY_STEPS}
    [] entry = "do_execute_sell" -> {SELL_STEPS}

Message(text) == [t |-> "message", text |-> text]

\* what the entry point returns from its except branch
ErrorResult(entry) ==
  CASE entry = "do_execute_buy" -> Message("Error executing buy order")
    [] entry = "do_execute_sell" -> Message("Error executing sell order")
    [] OTHER -> PyInt(1)

\* what it returns at the end of its try block
SuccessResult(entry) ==
  CASE entry = "do_execute_buy" -> Message("Buy order executed successfully")
    [] entry = "do_execute_sell" -> Message("Sell order executed successfully")
    [] OTHER -> PyInt(0)

\* what fetch_session_config returns to the entry point
FlowConfigs == {PyNone, PyDict(FULL_SESSION)}

\* agent_main.main goes on whatever the call returned
main_proceeds_always(called, ok) == TRUE

\* agent_main.py: "if not session_config: raise" of get_session_config,
\* "if not tx_params", "if not signed_tx", "if not tx_hash": raise; a wait
\* that returned None is logged only
main_proceeds(called, ok) == ok \/ called = "wait"

\* a step function goes on whatever the call returned
step_proceeds_always(called, ok) == TRUE

\* send_one_wei and the step functions of agent_swap.py: "if not tx_params",
\* "if not signed_tx", "if not tx_hash": raise, "if receipt: ... else: raise";
\* the entry points do not look at what fetch_session_config returned
step_proceeds(called, ok) == ok \/ called = "fetch"

Proceeds(called, ok) ==
  IF entry_point = "agent_main.main" THEN main_proceeds(called, ok)
  ELSE step_proceeds(called, ok)

Called(name, ok) == [step |-> step, stage |-> name, ok |-> ok]

\* prepare_transaction does not use the base fee: one value of it
HighestBaseFee == {b \in BaseFees : \A c \in BaseFees : c <= b}

notFlowVars == <<chainVars, fetchVars, fnVars, waitVars, pipeVars, threadVars>>

InitFlow ==
  /\ FetchIdle
  /\ FnIdle
  /\ WaitIdle
  /\ PipeIdle
  /\ ThreadIdle
  /\ baseFeePerGas \in HighestBaseFee
  /\ txCount \in 0..MaxNonce
  /\ amount \in Amounts
  /\ session_config = PyNone
  /\ txpc = "idle"
  /\ tx_params = NoneTx
  /\ signed_tx = NoneTx
  /\ send_arg = NoneTx
  /\ serialized_tx = NoBytes
  /\ broadcasts = <<>>
  /\ tx_hash = NoneV
  /\ entry_point \in EntryPoints
  /\ steps \in StepsOf(entry_point)
  /\ step = 0
  /\ stage = "fetch"
  /\ trace = <<>>
  /\ exit_value = PyNone

\* the except branch of the entry point
Fails ==
  /\ stage' = "returned"
  /\ exit_value' = ErrorResult(entry_point)

\* the call returned: the next call, or the raise of the caller
Then(called, ok, next) ==
  /\ trace' = Append(trace, Called(called, ok))
  /\ IF Proceeds(called, ok)
     THEN stage' = next /\ exit_value' = exit_value
     ELSE Fails

\* session_config = fetch_session_config(...)
FlowFetch ==
  /\ stage = "fetch"
  /\ \E cfg \in FlowConfigs :
       /\ session_config' = cfg
       /\ Then("fetch", cfg # PyNone, "prepare")
  /\ step' = 1
  /\ UNCHANGED <<notFlowVars, baseFeePerGas, txCount, amount, txpc, tx_params, signed_tx,
                 send_arg, serialized_tx, broadcasts, tx_hash, entry_point, steps>>

\* fetch_session_config raises, or the environment of get_session_config
\* lacks a variable
FlowFetchRaises ==
  /\ stage = "fetch"
  /\ trace' = Append(trace, Called("fetch", FALSE))
  /\ Fails
  /\ UNCHANGED <<notFlowVars, txVars, entry_point, steps, step>>

\* tx_params = prepare_transaction(session_config, amount); None when the
\* node did not answer
FlowPrepare ==
  /\ stage = "prepare"
  /\ \E answered \in BOOLEAN :
       /\ tx_params' = IF answered THEN prepare_transaction(txCount, baseFeePerGas, amount)
                       ELSE NoneTx
       /\ Then("prepare", answered,
               IF entry_point = "agent_main.main" THEN "sign" ELSE "edit")
  /\ UNCHANGED <<notFlowVars, baseFeePerGas, txCount, amount, session_config, txpc, signed_tx,
                 send_arg, serialized_tx, broadcasts, tx_hash, entry_point, steps, step>>

\* tx_params["data"], tx_params["to"], tx_params["from"] = ...: a TypeError
\* when tx_params is None
FlowEdit ==
  /\ stage = "edit"
  /\ IF tx_params.kind = "tx"
     THEN /\ \E c \in CallerCalls :
               tx_params' = [tx_params EXCEPT !.data = c.data, !.to = c.to,
                                              !.from = WALLET_ADDRESS]
          /\ stage' = "sign"
          /\ exit_value' = exit_value
     ELSE /\ tx_params' = tx_params
          /\ Fails
  /\ UNCHANGED <<notFlowVars, baseFeePerGas, txCount, amount, session_config, txpc, signed_tx,
                 send_arg, serialized_tx, broadcasts, tx_hash, entry_point, steps, step, trace>>

\* signed_tx = sign_transaction(tx_params, session_config)
FlowSign ==
  /\ stage = "sign"
  /\ \E signed_hash \in SignedHashes :
       /\ signed_tx' = sign_transaction(tx_params, session_config, signed_hash)
       /\ Then("sign", signed_tx'.kind = "tx", "send")
  /\ UNCHANGED <<notFlowVars, baseFeePerGas, txCount, amount, session_config, txpc, tx_params,
                 send_arg, serialized_tx, broadcasts, tx_hash, entry_point, steps, step>>

\* tx_hash = send_transaction(signed_tx): serialize_transaction, then
\* send_raw_transaction when it returned bytes
FlowSend ==
  /\ stage = "send"
  /\ \E rpcAccepts \in BOOLEAN :
       LET sent == send_transaction(signed_tx, rpcAccepts)
           serialize == Called("serialize", sent.serialized.ok)
           submit == Called("submit", sent.tx_hash # NoneV)
       IN /\ serialized_tx' = sent.serialized
          /\ broadcasts' = broadcasts \o sent.broadcasts
          /\ tx_hash' = sent.tx_hash
          /\ trace' = trace \o (IF sent.broadcasts = <<>> THEN <<serialize>>
                                ELSE <<serialize, submit>>)
          /\ IF Proceeds("send", sent.tx_hash # NoneV)
             THEN stage' = "wait" /\ exit_value' = exit_value
             ELSE Fails
  /\ send_arg' = signed_tx
  /\ UNCHANGED <<notFlowVars, baseFeePerGas, txCount, amount, session_config, txpc, tx_params,
                 signed_tx, entry_point, steps, step>>

\* receipt = wait_for_transaction(tx_hash): the receipt of a transaction the
\* chain has mined, or None; then the next step function, or the return
FlowWait ==
  /\ stage = "wait"
  /\ \E confirmed \in (IF tx_hash = NoneV THEN {FALSE} ELSE BOOLEAN) :
       /\ txCount' = IF confirmed THEN txCount + 1 ELSE txCount
       /\ trace' = Append(trace, Called("wait", confirmed))
       /\ IF ~Proceeds("wait", confirmed) THEN Fails /\ step' = step
          ELSE IF step < Len(steps)
          THEN stage' = "prepare" /\ step' = step + 1 /\ exit_value' = exit_value
          ELSE /\ stage' = "returned"
               /\ step' = step
               /\ exit_value' = SuccessResult(entry_point)
  /\ UNCHANGED <<notFlowVars, baseFeePerGas, amount, session_config, txpc, tx_params,
                 signed_tx, send_arg, serialized_tx, broadcasts, tx_hash, entry_point, steps>>

NextFlow ==
  \/ FlowFetch
  \/ FlowFetchRaises
  \/ FlowPrepare
  \/ FlowEdit
  \/ FlowSign
  \/ FlowSend
  \/ FlowWait

SpecFlow == InitFlow /\ [][NextFlow]_vars

\* the calls of agent_main.main, in the order of its code
MAIN_STAGES == <<"fetch", "prepare", "sign", "serialize", "submit", "wait">>

Submitted == {i \in 1..Len(trace) : trace[i].stage = "submit"}

\* C22: agent_main.main runs fetch session, prepare, sign, serialize, submit
\* and wait in this order, each one only after the one before it succeeded,
\* so that nothing runs after a stage that failed and nothing is broadcast
\* unless prepare, sign and serialize succeeded
C22_MainStagesInOrder ==
  entry_point = "agent_main.main" =>
    /\ Len(trace) <= Len(MAIN_STAGES)
    /\ \A i \in 1..Len(trace) : trace[i].stage = MAIN_STAGES[i]
    /\ \A i \in 2..Len(trace) : trace[i - 1].ok
    /\ Len(broadcasts) = Cardinality(Submitted)
    /\ broadcasts # <<>> =>
         \A i \in 2..4 : trace[i].stage = MAIN_STAGES[i] /\ trace[i].ok

\* all six stages ran and main returned 0
C22_Witness ==
  /\ entry_point = "agent_main.main"
  /\ stage = "returned"
  /\ exit_value = PyInt(0)
  /\ Len(trace) = Len(MAIN_STAGES)
  /\ Len(broadcasts) = 1

\* fetch_session_config returned None to the entry point
NoSessionFetched ==
  /\ Len(trace) >= 1
  /\ session_config = PyNone

\* C25: when fetch_session_config returns None, none of the entry points
\* agent_main.main, agent_send.main, agent_swap.main, do_execute_buy and
\* do_execute_sell broadcasts a transaction, and each of them returns its
\* error result
C25_NoSessionNoBroadcast ==
  NoSessionFetched =>
    /\ broadcasts = <<>>
    /\ \A i \in 1..Len(trace) : trace[i].stage # "submit"
    /\ stage = "returned" => exit_value = ErrorResult(entry_point)

\* do_execute_buy went as far as sign_transaction without a session and
\* returned its error message
C25_Witness ==
  /\ NoSessionFetched
  /\ entry_point = "do_execute_buy"
  /\ stage = "returned"
  /\ trace[Len(trace)] = [step |-> 1, stage |-> "sign", ok |-> FALSE]
  /\ exit_value = Message("Error executing buy order")

\* deposit, approve, swap or approve, swap, unwrap
SwapFlow == steps \in {SELL_STEPS, BUY_STEPS}

\* C28: in the swap flows a step's transaction is broadcast only after the
\* receipt of the step before it was seen, the steps run in their order, and
\* after any failure no transaction of a later call is broadcast
C28_StepAfterPreviousReceipt ==
  SwapFlow =>
    /\ Len(broadcasts) = Cardinality(Submitted)
    /\ \A i \in Submitted :
         trace[i].step > 1 =>
           \E j \in 1..(i - 1) :
             trace[j] = [step |-> trace[i].step - 1, stage |-> "wait", ok |-> TRUE]
    /\ \A i, j \in 1..Len(trace) :
         i < j =>
           /\ trace[i].step <= trace[j].step
           /\ ~trace[i].ok => trace[j].stage # "submit"

\* agent_swap.main broadcast deposit, approve and swap and returned 0
C28_Witness ==
  /\ entry_point = "agent_swap.main"
  /\ steps = SELL_STEPS
  /\ stage = "returned"
  /\ exit_value = PyInt(0)
  /\ Len(broadcasts) = 3
  /\ \A k \in 1..3 :
       \E i \in 1..Len(trace) : trace[i] = [step |-> k, stage |-> "wait", ok |-> TRUE]

(***************************************************************************)
(* Two pipelines of one account: execute_buy and execute_sell of           *)
(* agent_trading.py, each prepare -> sign -> send -> wait, again and again *)
(***************************************************************************)
\* transactions the chain mines in the model
MaxMined == 2

PipelineIds == {"execute_buy", "execute_sell"}

\* a pipeline: where it is, the nonce of the transaction it prepared last
\* (read only while it holds one), whether nothing of the account was mined
\* since it prepared, whether its transaction was mined, and the nonces of
\* the receipts it saw
Pipeline(ppc, nonce, fresh, isMined, seen) ==
  [ppc |-> ppc, nonce |-> nonce, fresh |-> fresh, mined |-> isMined, seen |-> seen]

notPipeVars == <<chainVars, fetchVars, fnVars, waitVars, flowVars, threadVars>>

InitNonce ==
  /\ FetchIdle
  /\ FnIdle
  /\ WaitIdle
  /\ FlowIdle
  /\ ThreadIdle
  /\ baseFeePerGas \in HighestBaseFee
  /\ txCount \in 0..MaxNonce
  /\ amount = 0
  /\ session_config = PyNone
  /\ txpc = "idle"
  /\ tx_params = NoneTx
  /\ signed_tx = NoneTx
  /\ send_arg = NoneTx
  /\ serialized_tx = NoBytes
  /\ broadcasts = <<>>
  /\ tx_hash = NoneV
  /\ pipelines = [p \in PipelineIds |-> Pipeline("prepare", 0, FALSE, FALSE, {})]
  /\ mempool = {}

\* tx_params = prepare_transaction(session_config, amount): the nonce is
\* get_transaction_count of the wallet address
PipePrepare(p) ==
  /\ pipelines[p].ppc = "prepare"
  /\ pipelines' = [pipelines EXCEPT ![p] =
       Pipeline("send", prepare_transaction(txCount, baseFeePerGas, amount).nonce,
                TRUE, FALSE, pipelines[p].seen)]
  /\ UNCHANGED <<notPipeVars, txVars, mempool>>

\* sign_transaction and send_transaction: the transaction reaches the node,
\* or the step function raises and the next order starts a new pipeline
PipeSend(p) ==
  /\ pipelines[p].ppc = "send"
  /\ \E sent \in BOOLEAN :
       /\ mempool' = IF sent THEN mempool \cup {[of |-> p, nonce |-> pipelines[p].nonce]}
                     ELSE mempool
       /\ pipelines' = [pipelines EXCEPT ![p].ppc = IF sent THEN "wait" ELSE "prepare"]
  /\ UNCHANGED <<notPipeVars, txVars>>

\* the chain mines a transaction whose nonce is the account's transaction
\* count, and the count grows by one
ChainMines ==
  /\ txCount < MaxNonce + MaxMined
  /\ \E t \in mempool :
       /\ t.nonce = txCount
       /\ mempool' = mempool \ {t}
       /\ pipelines' = [p \in PipelineIds |->
            [pipelines[p] EXCEPT !.fresh = FALSE,
                                 !.mined = IF p = t.of /\ pipelines[p].ppc = "wait"
                                              /\ pipelines[p].nonce = t.nonce
                                           THEN TRUE ELSE @]]
  /\ txCount' = txCount + 1
  /\ UNCHANGED <<notPipeVars, baseFeePerGas, amount, session_config, txpc, tx_params, signed_tx,
                 send_arg, serialized_tx, broadcasts, tx_hash>>

\* wait_for_transaction returns the receipt of a mined transaction and the
\* next step prepares, or it returns None and the step function raises; the
\* transaction stays with the node
PipeWait(p) ==
  /\ pipelines[p].ppc = "wait"
  /\ \E confirmed \in (IF pipelines[p].mined THEN BOOLEAN ELSE {FALSE}) :
       pipelines' = [pipelines EXCEPT ![p].ppc = "prepare",
                                      ![p].seen = IF confirmed THEN @ \cup {pipelines[p].nonce}
                                                   ELSE @]
  /\ UNCHANGED <<notPipeVars, txVars, mempool>>

NextNonce ==
  \/ \E p \in PipelineIds : PipePrepare(p)
  \/ \E p \in PipelineIds : PipeSend(p)
  \/ \E p \in PipelineIds : PipeWait(p)
  \/ ChainMines

SpecNonce == InitNonce /\ [][NextNonce]_vars

\* the pipeline holds a transaction it prepared
Holding(p) == pipelines[p].ppc \in {"send", "wait"}

\* C29: the nonce prepare_transaction assigns is the account's transaction
\* count on the chain at that moment and nothing else: two pipelines that
\* prepared with no transaction of the account mined in between hold the same
\* nonce, and a pipeline that prepared after seeing a receipt holds a nonce
\* strictly larger than that of the receipt
C29_NonceIsChainCount ==
  /\ \A p \in PipelineIds :
       Holding(p) /\ pipelines[p].fresh => pipelines[p].nonce = txCount
  /\ \A p, q \in PipelineIds :
       Holding(p) /\ Holding(q) /\ pipelines[p].fresh /\ pipelines[q].fresh
         => pipelines[p].nonce = pipelines[q].nonce
  /\ \A p \in PipelineIds :
       Holding(p) => \A n \in pipelines[p].seen : pipelines[p].nonce > n

\* both pipelines hold the same nonce, one of them after the receipt of its
\* previous transaction
C29_Witness ==
  /\ \A p \in PipelineIds : Holding(p) /\ pipelines[p].fresh
  /\ pipelines["execute_buy"].nonce = pipelines["execute_sell"].nonce
  /\ pipelines["execute_buy"].seen # {}
  /\ pipelines["execute_sell"].seen = {}

(***************************************************************************)
(* agent_trading.py: start_trading, stop_trading and run_trading_loop      *)
(***************************************************************************)
\* threads that start_trading can create in the model
MaxThreads == 3

ThreadIds == 1..MaxThreads

\* a thread: its position in run_trading_loop, and whether it began a
\* trading iteration after stop_trading had reported it stopped
Thread(tpc, late) == [tpc |-> tpc, late |-> late]

\* threading.Thread.is_alive()
is_alive(id) == threads[id].tpc \notin {"unstarted", "terminated"}

notThreadVars == <<chainVars, fetchVars, txVars, fnVars, waitVars, flowVars, pipeVars>>

InitTrading ==
  /\ FetchIdle
  /\ TxIdle
  /\ FnIdle
  /\ WaitIdle
  /\ FlowIdle
  /\ PipeIdle
  /\ trading_thread = 0
  /\ stop_trading_flag = FALSE
  /\ threads = [id \in ThreadIds |-> Thread("unstarted", FALSE)]
  /\ spc = "idle"
  /\ stopped = {}

\* start_trading: "already running" when the global holds a live thread,
\* else the flag is cleared and a new thread is started
StartTrading ==
  /\ spc = "idle"
  /\ ~(trading_thread # 0 /\ is_alive(trading_thread))
  /\ \E id \in ThreadIds :
       /\ threads[id].tpc = "unstarted"
       /\ \A other \in ThreadIds : threads[other].tpc = "unstarted" => id <= other
       /\ stop_trading_flag' = FALSE
       /\ trading_thread' = id
       /\ threads' = [threads EXCEPT ![id].tpc = "outer_check"]
  /\ UNCHANGED <<notThreadVars, spc, stopped>>

\* stop_trading: "No trading bot is running" unless the global holds a live
\* thread; else stop_trading_flag = True and trading_thread.join(timeout=5)
StopTrading ==
  /\ spc = "idle"
  /\ trading_thread # 0
  /\ is_alive(trading_thread)
  /\ stop_trading_flag' = TRUE
  /\ spc' = "join"
  /\ UNCHANGED <<notThreadVars, trading_thread, threads, stopped>>

\* the thread is in agent.interact or in one of the sleeps of
\* SEND_INTERVAL_SECONDS (10 unless the environment says otherwise)
Blocked(id) == threads[id].tpc \in {"interact", "inner_sleep", "outer_sleep"}

\* join returns, because the thread ended or because five seconds passed
\* with the thread still blocked; then trading_thread = None and "Trading
\* bot stopped successfully"
StopJoined ==
  /\ spc = "join"
  /\ ~is_alive(trading_thread) \/ Blocked(trading_thread)
  /\ stopped' = stopped \cup {trading_thread}
  /\ trading_thread' = 0
  /\ spc' = "idle"
  /\ UNCHANGED <<notThreadVars, stop_trading_flag, threads>>

\* run_trading_loop: while not stop_trading_flag
OuterCheck(id) ==
  /\ threads[id].tpc = "outer_check"
  /\ threads' = [threads EXCEPT ![id].tpc =
                   IF stop_trading_flag THEN "terminated" ELSE "inner_check"]
  /\ UNCHANGED <<notThreadVars, trading_thread, stop_trading_flag, spc, stopped>>

\* trading_loop: while not stop_trading_flag; when it is set the coroutine
\* returns and run_trading_loop sleeps
InnerCheck(id) ==
  /\ threads[id].tpc = "inner_check"
  /\ threads' = [threads EXCEPT ![id] =
                   IF stop_trading_flag THEN Thread("outer_sleep", @.late)
                   ELSE Thread("interact", @.late \/ id \in stopped)]
  /\ UNCHANGED <<notThreadVars, trading_thread, stop_trading_flag, spc, stopped>>

\* one trading iteration: agent.interact(trading_data)
Interact(id) ==
  /\ threads[id].tpc = "interact"
  /\ threads' = [threads EXCEPT ![id].tpc = "inner_sleep"]
  /\ UNCHANGED <<notThreadVars, trading_thread, stop_trading_flag, spc, stopped>>

\* await asyncio.sleep(SEND_INTERVAL_SECONDS)
InnerSleep(id) ==
  /\ threads[id].tpc = "inner_sleep"
  /\ threads' = [threads EXCEPT ![id].tpc = "inner_check"]
  /\ UNCHANGED <<notThreadVars, trading_thread, stop_trading_flag, spc, stopped>>

\* time.sleep(SEND_INTERVAL_SECONDS)
OuterSleep(id) ==
  /\ threads[id].tpc = "outer_sleep"
  /\ threads' = [threads EXCEPT ![id].tpc = "outer_check"]
  /\ UNCHANGED <<notThreadVars, trading_thread, stop_trading_flag, spc, stopped>>

NextTrading ==
  \/ StartTrading
  \/ StopTrading
  \/ StopJoined
  \/ \E id \in ThreadIds : OuterCheck(id)
  \/ \E id \in ThreadIds : InnerCheck(id)
  \/ \E id \in ThreadIds : Interact(id)
  \/ \E id \in ThreadIds : InnerSleep(id)
  \/ \E id \in ThreadIds : OuterSleep(id)

SpecTrading == InitTrading /\ [][NextTrading]_vars

Running == {id \in ThreadIds : is_alive(id)}

\* C30: at most one trading-loop thread is running at any time, so that
\* start_trading never starts a thread while an earlier one has not
\* terminated, and a thread that stop_trading reported stopped begins no
\* further trading iteration
C30_OneTradingThread ==
  /\ Cardinality(Running) <= 1
  /\ \A id \in stopped : ~threads[id].late

====
